---- MODULE Spec2Model ----
(* Verification model of the OHdio audiobook downloader:                    *)
(*   - the retrying fetch of utils/network_utils.py (safe_request and       *)
(*     sync_request),                                                       *)
(*   - the metadata completeness gate of scraper/audiobook_scraper.py,      *)
(*   - the playlist resolver of scraper/playlist_extractor.py,              *)
(*   - the batch orchestrator of main.py (OHdioDownloader),                 *)
(*   - the category discovery of scraper/category_scraper.py,               *)
(*   - the file names and output paths of utils/file_utils.py and           *)
(*     downloader/ytdlp_downloader.py (download_audiobook),                 *)
(*   - the construction of a Config (utils/config.py),                      *)
(*   - the stop flag of the host application (app.py).                      *)
EXTENDS Integers, Sequences, FiniteSets, TLC

VARIABLES
    \* ---- one call of safe_request / sync_request ----
    fmode,        \* "async" (safe_request) or "sync" (sync_request)
    max_retries,  \* argument max_retries
    delay,        \* argument delay (base delay, whole seconds)
    attempt,      \* loop variable of `for attempt in range(max_retries + 1)`
    fpc,          \* "loop" | "sleeping" | "returned" | "raised"
    fresult,      \* the value returned or the exception raised
    trace,        \* what the call did so far: requests issued and waits made
    \* ---- one call of AudiobookScraper.scrape_audiobook ----
    xpc,          \* "call" | "returned" | "raised"
    xfetched,     \* what safe_request gave for the page
    xpage,        \* the markup of the fetched page
    xresult,      \* the AudiobookMetadata returned, or NoMetadata for None
    \* ---- one batch run of OHdioDownloader._process_audiobooks ----
    config,       \* the Config of the run
    pc,           \* per item: where its task is suspended
    sem,          \* value of the asyncio.Semaphore
    stats,        \* OHdioDownloader.stats
    meta,         \* per item: the metadata its pipeline holds
    out_path,     \* per item: output path handed to the downloader
    outcome,      \* per item: "-" | "Failed" | "SkippedExisting" | "Downloaded"
    files,        \* names of the files in the output directory
    hist,         \* per item: what its pipeline did (calls made, counters bumped)
    run,          \* number of the invocation on this OHdioDownloader instance
    \* ---- one call of download_all_audiobooks up to the end of discovery ----
    dpc,          \* "call" | "error_report" | "raised" | "processing"
    dfetched,     \* what safe_request gave for the category page
    dstrats,      \* what each of the four parsing methods does on the page
    catalog,      \* the list scrape_category returned
    \* ---- the host application (app.py) ----
    stop_requested, \* DOWNLOAD_STATE['stop_requested']
    \* ---- one call of YtDlpDownloader.download_audiobook ----
    ypc,          \* "call" | "running" | "returned" | "raised"
    yargs,        \* playlist_url, title, author and config.skip_existing
    ydir,         \* names of the files in the output directory
    yfilename,    \* local filename
    ypath,        \* local output_path
    yresult,      \* the path returned, or PyNone
    \* ---- one construction of a Config (Config(...) or Config.from_file) ----
    cpc,          \* "call" | "returned" | "raised"
    cinput,       \* how the Config is made and from which values
    cresult,      \* the Config returned
    cerror,       \* the exception raised, "" for none
    \* ---- one call of PlaylistExtractor.extract_playlist_url ----
    rpc,          \* "call" | "requested" | "returned"
    rmarkup,      \* what the searches of extract_media_id meet in the page
    rapi,         \* what the validation API does when it is called
    rcalls,       \* the media ids the API was requested with, in order
    rresult       \* the playlist url returned, or PyNone

fetchVars == <<fmode, max_retries, delay, attempt, fpc, fresult, trace>>

scrapeVars == <<xpc, xfetched, xpage, xresult>>

orchVars == <<config, pc, sem, stats, meta, out_path, outcome, files, hist, run>>

discVars == <<dpc, dfetched, dstrats, catalog>>

hostVars == <<stop_requested>>

dlVars == <<ypc, yargs, ydir, yfilename, ypath, yresult>>

cfgVars == <<cpc, cinput, cresult, cerror>>

idVars == <<rpc, rmarkup, rapi, rcalls, rresult>>

vars == <<fetchVars, scrapeVars, orchVars, discVars, hostVars, dlVars, cfgVars, idVars>>

nonFetchVars == <<scrapeVars, orchVars, discVars, hostVars, dlVars, cfgVars, idVars>>

nonScrapeVars == <<fetchVars, orchVars, discVars, hostVars, dlVars, cfgVars, idVars>>

nonOrchVars == <<fetchVars, scrapeVars, discVars, hostVars, dlVars, cfgVars, idVars>>

nonDiscVars == <<fetchVars, scrapeVars, orchVars, hostVars, dlVars, cfgVars, idVars>>

nonDlVars == <<fetchVars, scrapeVars, orchVars, discVars, hostVars, cfgVars, idVars>>

nonCfgVars == <<fetchVars, scrapeVars, orchVars, discVars, hostVars, dlVars, idVars>>

nonIdVars == <<fetchVars, scrapeVars, orchVars, discVars, hostVars, dlVars, cfgVars>>

-----------------------------------------------------------------------------
(* Bounds *)
MaxRetries == 2
MaxDelay == 2
MaxItems == 2
MaxConcurrent == 2

Items == 1..MaxItems

-----------------------------------------------------------------------------
(* Strings are sequences of characters, so that str() and float() are      *)
(* conversions that can fail.                                              *)

Digits == <<"0", "1", "2", "3", "4", "5", "6", "7", "8", "9">>

DigitChars == {Digits[i] : i \in 1..10}

DigitValue(c) == (CHOOSE i \in 1..10 : Digits[i] = c) - 1

RECURSIVE PyStr(_)
\* str(n) for a non-negative whole number of seconds
PyStr(n) == IF n < 10 THEN <<Digits[n + 1]>>
            ELSE Append(PyStr(n \div 10), Digits[(n % 10) + 1])

RECURSIVE DigitsValue(_)
DigitsValue(s) == IF s = <<>> THEN 0
                  ELSE 10 * DigitsValue(SubSeq(s, 1, Len(s) - 1)) + DigitValue(s[Len(s)])

\* float(s): the number, or ValueError when s is not a numeral
PyFloat(s) == IF s # <<>> /\ \A i \in 1..Len(s) : s[i] \in DigitChars
              THEN [ok |-> TRUE, v |-> DigitsValue(s)]
              ELSE [ok |-> FALSE, v |-> 0]

RECURSIVE Pow2(_)
Pow2(n) == IF n = 0 THEN 1 ELSE 2 * Pow2(n - 1)

\* delay * (2 ** attempt)
Backoff(d, a) == d * Pow2(a)

\* Optional[str]: None is a value that is no string
PyNone == <<"\\None">>

NoMetadata == [ok |-> FALSE, title |-> PyNone, author |-> PyNone,
               playlist_url |-> PyNone, thumbnail_url |-> PyNone]

\* no call of scrape_audiobook is under way
ScrapeIdle ==
    /\ xpc = "idle"
    /\ xfetched = <<>>
    /\ xpage = <<>>
    /\ xresult = <<>>

NoHist == [scraped |-> "-", exc |-> FALSE, existed |-> FALSE,
           dl |-> 0, dlok |-> FALSE, tag |-> 0, tagok |-> FALSE,
           processed |-> 0, downloaded |-> 0, skipped |-> 0, failed |-> 0]

\* no batch is under way
OrchIdle ==
    /\ config = [max_concurrent_downloads |-> 1, delay_between_requests |-> 0,
                 skip_existing |-> TRUE, embed_metadata |-> TRUE]
    /\ pc = [i \in Items |-> "absent"]
    /\ sem = 0
    /\ stats = [discovered |-> 0, processed |-> 0, downloaded |-> 0, failed |-> 0, skipped |-> 0]
    /\ meta = [i \in Items |-> NoMetadata]
    /\ out_path = [i \in Items |-> <<>>]
    /\ outcome = [i \in Items |-> "-"]
    /\ files = {}
    /\ hist = [i \in Items |-> NoHist]
    /\ run = 0

\* no call of download_all_audiobooks is under way
DiscIdle ==
    /\ dpc = "idle"
    /\ dfetched = <<>>
    /\ dstrats = <<>>
    /\ catalog = <<>>

\* DOWNLOAD_STATE as declared, and as start_download_single and
\* start_download_category set it before the thread of the run starts
HostIdle == stop_requested = FALSE

\* the defaults of the dataclass Config (delay in whole seconds)
DefaultConfig == [output_directory |-> "configured", max_concurrent_downloads |-> 3,
                  retry_attempts |-> 3, delay_between_requests |-> 1]

\* no call of extract_playlist_url is under way
IdIdle ==
    /\ rpc = "idle"
    /\ rmarkup = <<>>
    /\ rapi = <<>>
    /\ rcalls = <<>>
    /\ rresult = <<>>

\* no Config is being made
CfgIdle ==
    /\ cpc = "idle"
    /\ cinput = <<>>
    /\ cresult = <<>>
    /\ cerror = ""

\* no call of download_audiobook is under way
DlIdle ==
    /\ ypc = "idle"
    /\ yargs = <<>>
    /\ ydir = {}
    /\ yfilename = <<>>
    /\ ypath = <<>>
    /\ yresult = <<>>

-----------------------------------------------------------------------------
(* Responses of the endpoint *)

NoHeader == <<"-">>
HttpDate == <<"W", "e", "d", ",", " ", "2", "1">>

\* values of the Retry-After header of a 429 response (RFC 7231: seconds or a date)
RetryAfterValues == {NoHeader, <<"0">>, <<"2">>, HttpDate}

Bodies == {"", "html"}

Statuses == {200, 204, 403, 404, 429, 500, 503}

TransportErrors == {"ClientError", "TimeoutError"}

\* err is the exception the transport raised instead of a response ("" for none)
Responses ==
    [status : {200}, body : Bodies, retryAfter : {NoHeader}, err : {""}]
    \cup [status : {429}, body : {""}, retryAfter : RetryAfterValues, err : {""}]
    \cup [status : Statuses \ {200, 429}, body : {""}, retryAfter : {NoHeader}, err : {""}]
    \cup [status : {0}, body : {""}, retryAfter : {NoHeader}, err : TransportErrors]

\* response.headers.get('Retry-After', str(delay * (2 ** attempt)))
RetryAfterOf(r, d, a) == IF r.retryAfter = NoHeader THEN PyStr(Backoff(d, a)) ELSE r.retryAfter

Req(r) == [ev |-> "req", status |-> r.status, body |-> r.body, hdr |-> r.retryAfter, err |-> r.err, t |-> 0]
Wait(t) == [ev |-> "wait", status |-> 0, body |-> "", hdr |-> NoHeader, err |-> "", t |-> t]

None == [kind |-> "None", body |-> ""]
Text(b) == [kind |-> "text", body |-> b]
Raised(e) == [kind |-> e, body |-> ""]
Pending == [kind |-> "pending", body |-> ""]

-----------------------------------------------------------------------------
(* safe_request / sync_request *)

FetchStart ==
    /\ fmode \in {"async", "sync"}
    /\ max_retries \in 0..MaxRetries
    /\ delay \in 0..MaxDelay
    /\ attempt = 0
    /\ fpc = "loop"
    /\ fresult = Pending
    /\ trace = <<>>

FetchInit == FetchStart /\ ScrapeIdle /\ OrchIdle /\ DiscIdle /\ HostIdle /\ DlIdle /\ CfgIdle /\ IdIdle

FetchReturn(r, v) ==
    /\ fpc' = "returned"
    /\ fresult' = v
    /\ trace' = Append(trace, Req(r))
    /\ UNCHANGED <<fmode, max_retries, delay, attempt>>
    /\ UNCHANGED nonFetchVars

FetchRaise(r, e) ==
    /\ fpc' = "raised"
    /\ fresult' = Raised(e)
    /\ trace' = Append(trace, Req(r))
    /\ UNCHANGED <<fmode, max_retries, delay, attempt>>
    /\ UNCHANGED nonFetchVars

\* sleep(t); continue
FetchSleep(r, t) ==
    /\ fpc' = "sleeping"
    /\ trace' = trace \o <<Req(r), Wait(t)>>
    /\ UNCHANGED <<fmode, max_retries, delay, attempt, fresult>>
    /\ UNCHANGED nonFetchVars

\* RetryOrRaise with the bound off by one: sleeps after the last attempt too
RetryOrRaiseOffByOne(r, err) ==
    IF attempt <= max_retries
    THEN FetchSleep(r, Backoff(delay, attempt))
    ELSE FetchRaise(r, err)

\* retry with exponential backoff, or raise err when the attempts are used up
RetryOrRaise(r, err) ==
    IF attempt < max_retries
    THEN FetchSleep(r, Backoff(delay, attempt))
    ELSE FetchRaise(r, err)

InLoop == fpc = "loop" /\ attempt <= max_retries

On200 ==
    /\ InLoop
    /\ \E r \in Responses :
        /\ r.status = 200
        /\ FetchReturn(r, Text(r.body))

On429 ==
    /\ InLoop
    /\ \E r \in Responses :
        /\ r.status = 429
        /\ LET wait_time == PyFloat(RetryAfterOf(r, delay, attempt))
           IN  IF ~wait_time.ok THEN FetchRaise(r, "ValueError")
               ELSE IF attempt < max_retries THEN FetchSleep(r, wait_time.v)
               ELSE FetchRaise(r, "RateLimitError")

On5xx ==
    /\ InLoop
    /\ \E r \in Responses :
        /\ r.status >= 500
        /\ RetryOrRaise(r, "NetworkError")

On404 ==
    /\ InLoop
    /\ \E r \in Responses :
        /\ r.status = 404
        /\ FetchReturn(r, None)

\* On4xx handled like a server error
On4xxRetried ==
    /\ InLoop
    /\ \E r \in Responses :
        /\ r.status >= 400 /\ r.status < 500
        /\ r.status \notin {404, 429}
        /\ RetryOrRaise(r, "NetworkError")

On4xx ==
    /\ InLoop
    /\ \E r \in Responses :
        /\ r.status >= 400 /\ r.status < 500
        /\ r.status \notin {404, 429}
        /\ FetchReturn(r, None)

\* a status that no branch of the if/elif chain matches: the loop body ends
OnOtherStatus ==
    /\ InLoop
    /\ \E r \in Responses :
        /\ r.err = ""
        /\ r.status < 400 /\ r.status # 200
        /\ fpc' = "loop"
        /\ attempt' = attempt + 1
        /\ trace' = Append(trace, Req(r))
        /\ UNCHANGED <<fmode, max_retries, delay, fresult>>
        /\ UNCHANGED nonFetchVars

\* except ClientError (aiohttp) / except RequestException (requests)
OnClientError ==
    /\ InLoop
    /\ \E r \in Responses :
        /\ \/ r.err = "ClientError"
           \/ r.err = "TimeoutError" /\ fmode = "sync"
        /\ RetryOrRaise(r, "NetworkError")

\* except asyncio.TimeoutError (safe_request only)
OnTimeout ==
    /\ InLoop
    /\ fmode = "async"
    /\ \E r \in Responses :
        /\ r.err = "TimeoutError"
        /\ RetryOrRaise(r, "NetworkError")

\* the sleep ends and `continue` starts the next iteration
WakeUp ==
    /\ fpc = "sleeping"
    /\ fpc' = "loop"
    /\ attempt' = attempt + 1
    /\ UNCHANGED <<fmode, max_retries, delay, fresult, trace>>
    /\ UNCHANGED nonFetchVars

\* the for loop ran out: `return None` after the loop
LoopExhausted ==
    /\ fpc = "loop"
    /\ attempt > max_retries
    /\ fpc' = "returned"
    /\ fresult' = None
    /\ UNCHANGED <<fmode, max_retries, delay, attempt, trace>>
    /\ UNCHANGED nonFetchVars

FetchNext ==
    \/ On200
    \/ On429
    \/ On5xx
    \/ On404
    \/ On4xx
    \/ OnOtherStatus
    \/ OnClientError
    \/ OnTimeout
    \/ WakeUp
    \/ LoopExhausted

SpecFetch == FetchInit /\ [][FetchNext]_vars

-----------------------------------------------------------------------------
(* Properties of the fetch *)

ReqIdx == {k \in 1..Len(trace) : trace[k].ev = "req"}
WaitIdx == {k \in 1..Len(trace) : trace[k].ev = "wait"}

\* 0-based number of the attempt that issued the request at position k
AttemptOf(k) == Cardinality({j \in ReqIdx : j < k})

\* 0-based number of the attempt that the wait at position k follows
WaitAttempt(k) == Cardinality({j \in WaitIdx : j < k})

FetchEnded == fpc \in {"returned", "raised"}

All5xx == \A k \in ReqIdx : trace[k].err = "" /\ trace[k].status >= 500

\* C7: a fetch whose every request was answered with a 5xx status, once it
\* has ended, has issued exactly max_retries + 1 requests and raised
\* NetworkError; its k-th wait lasted delay * 2^k and the waits never decrease.
C7_ServerErrorRetries ==
    (FetchEnded /\ All5xx) =>
        /\ fresult = Raised("NetworkError")
        /\ Cardinality(ReqIdx) = max_retries + 1
        /\ Cardinality(WaitIdx) = max_retries
        /\ \A k \in WaitIdx : trace[k].t = delay * Pow2(WaitAttempt(k))
        /\ \A j, k \in WaitIdx : j < k => trace[j].t <= trace[k].t

C7_Witness ==
    /\ fpc = "raised"
    /\ All5xx
    /\ max_retries >= 2
    /\ delay >= 1
    /\ fmode = "sync"

IsNumeral(h) == h # <<>> /\ \A i \in 1..Len(h) : h[i] \in DigitChars

\* C8: a 429 received on an attempt that is not the last is followed by a
\* wait (of the Retry-After seconds, or of delay * 2^attempt without the
\* header) and then by a retry; when the retry is answered 200 the fetch
\* returns that body and raises nothing.
C8_RateLimitedThenRetried ==
    \A k \in ReqIdx :
        (trace[k].status = 429 /\ AttemptOf(k) < max_retries) =>
            /\ Len(trace) > k
            /\ trace[k + 1].ev = "wait"
            /\ trace[k].hdr = NoHeader => trace[k + 1].t = delay * Pow2(AttemptOf(k))
            /\ IsNumeral(trace[k].hdr) => PyStr(trace[k + 1].t) = trace[k].hdr
            /\ (Len(trace) >= k + 2 /\ trace[k + 2].status = 200) =>
                    /\ fpc = "returned"
                    /\ fresult = Text(trace[k + 2].body)

All429 == \A k \in ReqIdx : trace[k].status = 429

\* C9: a fetch whose every request was answered 429, once it has ended, has
\* issued exactly max_retries + 1 requests and raised RateLimitError, which is
\* not the NetworkError of exhausted 5xx or transport errors.
C9_RateLimitExhausted ==
    (FetchEnded /\ All429) =>
        /\ fresult = Raised("RateLimitError")
        /\ fresult # Raised("NetworkError")
        /\ Cardinality(ReqIdx) = max_retries + 1

IsClientError(k) ==
    /\ trace[k].ev = "req"
    /\ trace[k].status >= 400 /\ trace[k].status < 500
    /\ trace[k].status # 429

\* C10: a response with status 404 or another 4xx except 429 is the last
\* thing the fetch does: no wait and no request follows it, and the fetch
\* returns None without raising.
C10_ClientErrorEndsFetch ==
    \A k \in 1..Len(trace) :
        IsClientError(k) =>
            /\ k = Len(trace)
            /\ fpc = "returned"
            /\ fresult = None

C10_Witness ==
    /\ trace # <<>>
    /\ IsClientError(Len(trace))
    /\ trace[Len(trace)].status = 403
    /\ attempt >= 1
    /\ attempt < max_retries
    /\ fpc = "returned"

\* C30: within one call, every request after the first comes right after a
\* wait, whatever the statuses of the responses.
C30_WaitBeforeEveryRetry ==
    \A k \in ReqIdx : k > 1 => trace[k - 1].ev = "wait"

-----------------------------------------------------------------------------
(* scraper/audiobook_scraper.py: title and author extraction and the        *)
(* completeness gate of _extract_metadata                                   *)

MaxText == 3

\* bool(s) of an Optional[str]
Truthy(s) == s # PyNone /\ s # <<>>

RECURSIVE LStrip(_)
LStrip(s) == IF s # <<>> /\ s[1] = " " THEN LStrip(Tail(s)) ELSE s

RECURSIVE RStrip(_)
RStrip(s) == IF s # <<>> /\ s[Len(s)] = " " THEN RStrip(SubSeq(s, 1, Len(s) - 1)) ELSE s

\* s.strip()
Strip(s) == LStrip(RStrip(s))

\* s.endswith(suf)
EndsWith(s, suf) == Len(s) >= Len(suf) /\ SubSeq(s, Len(s) - Len(suf) + 1, Len(s)) = suf

\* s.startswith(pre)
StartsWith(s, pre) == Len(s) >= Len(pre) /\ SubSeq(s, 1, Len(pre)) = pre

suffixes_to_remove == <<
    <<" ", "|", " ", "I", "C", "I", " ", "O", "H", "d", "i", "o">>,
    <<" ", "|", " ", "R", "a", "d", "i", "o", "-", "C", "a", "n", "a", "d", "a">>,
    <<" ", "-", " ", "O", "H", "d", "i", "o">>,
    <<" ", "-", " ", "R", "a", "d", "i", "o", "-", "C", "a", "n", "a", "d", "a">>,
    <<" ", "-", " ", "L", "i", "v", "r", "e", " ", "a", "u", "d", "i", "o">>
>>

prefixes_to_remove == <<
    <<"p", "a", "r", " ">>,
    <<"b", "y", " ">>,
    <<"d", "e", " ">>,
    <<"a", "u", "t", "e", "u", "r", ":", " ">>
>>

RECURSIVE RemoveSuffixes(_, _)
\* for suffix in suffixes_to_remove: if title.endswith(suffix): title = title[:-len(suffix)]
RemoveSuffixes(title, k) ==
    IF k > Len(suffixes_to_remove) THEN title
    ELSE IF EndsWith(title, suffixes_to_remove[k])
         THEN RemoveSuffixes(SubSeq(title, 1, Len(title) - Len(suffixes_to_remove[k])), k + 1)
         ELSE RemoveSuffixes(title, k + 1)

_clean_title(title) == Strip(RemoveSuffixes(title, 1))

RECURSIVE RemovePrefix(_, _)
\* the first prefix that matches is removed, then break
RemovePrefix(author, k) ==
    IF k > Len(prefixes_to_remove) THEN author
    ELSE IF StartsWith(author, prefixes_to_remove[k])
         THEN SubSeq(author, Len(prefixes_to_remove[k]) + 1, Len(author))
         ELSE RemovePrefix(author, k + 1)

_clean_author(author) == Strip(RemovePrefix(author, 1))

TitleSelectors == <<<<"h", "1">>, <<".", "t", "i", "t", "l", "e">>, <<".", "b", "o", "o", "k", "-", "t", "i", "t", "l", "e">>, <<".", "a", "u", "d", "i", "o", "b", "o", "o", "k", "-", "t", "i", "t", "l", "e">>, <<"[", "d", "a", "t", "a", "-", "t", "i", "t", "l", "e", "]">>, <<"m", "e", "t", "a", "[", "p", "r", "o", "p", "e", "r", "t", "y", "=", "o", "g", ":", "t", "i", "t", "l", "e", "]">>, <<"t", "i", "t", "l", "e">>>>

AuthorSelectors == <<<<".", "a", "u", "t", "h", "o", "r">>, <<".", "b", "o", "o", "k", "-", "a", "u", "t", "h", "o", "r">>, <<".", "b", "y", "-", "a", "u", "t", "h", "o", "r">>, <<"[", "d", "a", "t", "a", "-", "a", "u", "t", "h", "o", "r", "]">>, <<"m", "e", "t", "a", "[", "n", "a", "m", "e", "=", "a", "u", "t", "h", "o", "r", "]">>, <<"m", "e", "t", "a", "[", "p", "r", "o", "p", "e", "r", "t", "y", "=", "b", "o", "o", "k", ":", "a", "u", "t", "h", "o", "r", "]">>>>

IsMeta(selector) == StartsWith(selector, <<"m", "e", "t", "a">>)

\* soup.select_one(selector): no element, or an element with its text or
\* its content attribute (PyNone when the attribute is missing)
NoElement == [present |-> FALSE, content |-> PyNone]
Element(c) == [present |-> TRUE, content |-> c]

\* element.get('content') for a meta element, element.get_text(strip=True) otherwise
ElementText(selector, el) ==
    IF IsMeta(selector) THEN el.content
    ELSE IF el.content = PyNone THEN <<>> ELSE Strip(el.content)

RECURSIVE SelectorCascade(_, _, _, _, _)
\* the loop over the selectors of _extract_title and _extract_author: the
\* first element whose text is longer than minLen and non-empty after
\* cleaning wins
SelectorCascade(selectors, els, k, minLen, isTitle) ==
    IF k > Len(selectors) THEN PyNone
    ELSE LET el == els[selectors[k]]
             raw == ElementText(selectors[k], el)
             cleaned == IF isTitle THEN _clean_title(raw) ELSE _clean_author(raw)
         IN  IF el.present /\ Truthy(raw) /\ Len(raw) > minLen /\ Truthy(cleaned)
             THEN cleaned
             ELSE SelectorCascade(selectors, els, k + 1, minLen, isTitle)

_extract_title(page) == SelectorCascade(TitleSelectors, page.els, 1, 2, TRUE)

\* the selectors first; then the regular-expression and per-line fallbacks
\* over the page text, whose result is None or a name of at least one word
_extract_author(page) ==
    LET bySelector == SelectorCascade(AuthorSelectors, page.els, 1, 1, FALSE)
    IN  IF bySelector # PyNone THEN bySelector ELSE page.patternAuthor

-----------------------------------------------------------------------------
(* scraper/playlist_extractor.py: PlaylistExtractor                         *)

\* a parsed JSON value: a string, a number, null, a list or a dict whose
\* items keep their order (k is the key of a dict item, "" in a list)
JStr(s) == [t |-> "str", s |-> s, items |-> <<>>]
JNum == [t |-> "num", s |-> <<>>, items |-> <<>>]
JNull == [t |-> "null", s |-> <<>>, items |-> <<>>]
JList(vs) == [t |-> "list", s |-> <<>>, items |-> [j \in 1..Len(vs) |-> [k |-> "", v |-> vs[j]]]]
JDict(kvs) == [t |-> "dict", s |-> <<>>, items |-> kvs]
KV(key, value) == [k |-> key, v |-> value]

M3U8 == <<".", "m", "3", "u", "8">>

\* an exception raised inside the try of get_playlist_from_api
PyError == <<"\\Error">>

\* bool(value) of a JSON value
JTruthy(value) ==
    CASE value.t = "str" -> value.s # <<>>
      [] value.t = "num" -> TRUE
      [] value.t = "null" -> FALSE
      [] OTHER -> value.items # <<>>

\* `key in obj`: a dict is asked for the key; a list holds no element equal
\* to the key and a string does not contain it; a number or null raises
HasKey(obj, key) ==
    CASE obj.t = "dict" -> IF \E j \in 1..Len(obj.items) : obj.items[j].k = key
                           THEN "yes" ELSE "no"
      [] obj.t \in {"list", "str"} -> "no"
      [] OTHER -> "raises"

\* obj[key] of a dict that has the key
Get(obj, key) == obj.items[CHOOSE j \in 1..Len(obj.items) : obj.items[j].k = key].v

\* `if url and url.endswith('.m3u8'): return url`: the url, None to go on,
\* or the AttributeError of a value that is true and no string
UrlIfManifest(url) ==
    IF ~JTruthy(url) THEN PyNone
    ELSE IF url.t # "str" THEN PyError
    ELSE IF EndsWith(url.s, M3U8) THEN url.s ELSE PyNone

RECURSIVE ValidationResultsLoop(_, _)
\* for result in data['validationResults']: if 'url' in result: ...
ValidationResultsLoop(results, j) ==
    IF j > Len(results) THEN PyNone
    ELSE LET has == HasKey(results[j].v, "url")
         IN  IF has = "raises" THEN PyError
             ELSE IF has = "no" THEN ValidationResultsLoop(results, j + 1)
             ELSE LET found == UrlIfManifest(Get(results[j].v, "url"))
                  IN  IF found = PyNone THEN ValidationResultsLoop(results, j + 1)
                      ELSE found

\* iterating data['validationResults']: a list gives its elements, a dict
\* its keys (a key 'url' then raises on result['url']), a string its
\* characters; a number or null is not iterable
ValidationResults(value) ==
    CASE value.t = "list" -> ValidationResultsLoop(value.items, 1)
      [] value.t = "dict" -> IF HasKey(value, "url") = "yes" THEN PyError ELSE PyNone
      [] value.t = "str" -> PyNone
      [] OTHER -> PyError

RECURSIVE find_m3u8_recursive(_)
RECURSIVE FindInDict(_, _)
RECURSIVE FindInList(_, _)

\* for key, value in obj.items(): a string value ending in .m3u8 is
\* returned, a dict or list value is searched
FindInDict(items, j) ==
    IF j > Len(items) THEN PyNone
    ELSE LET value == items[j].v
         IN  IF value.t = "str" /\ EndsWith(value.s, M3U8) THEN value.s
             ELSE IF value.t \in {"dict", "list"}
             THEN LET result == find_m3u8_recursive(value)
                  IN  IF Truthy(result) THEN result ELSE FindInDict(items, j + 1)
             ELSE FindInDict(items, j + 1)

\* for i, item in enumerate(obj): result = find_m3u8_recursive(item)
FindInList(items, j) ==
    IF j > Len(items) THEN PyNone
    ELSE LET result == find_m3u8_recursive(items[j].v)
         IN  IF Truthy(result) THEN result ELSE FindInList(items, j + 1)

find_m3u8_recursive(obj) ==
    IF obj.t = "dict" THEN FindInDict(obj.items, 1)
    ELSE IF obj.t = "list" THEN FindInList(obj.items, 1)
    ELSE PyNone

\* the body of the try of get_playlist_from_api on the parsed response
SearchResponse(data) ==
    LET hasUrl == HasKey(data, "url")
        top == IF hasUrl = "yes" THEN UrlIfManifest(Get(data, "url")) ELSE PyNone
        hasResults == HasKey(data, "validationResults")
        nested == IF hasResults = "yes" THEN ValidationResults(Get(data, "validationResults"))
                  ELSE PyNone
    IN  IF hasUrl = "raises" THEN PyError
        ELSE IF top # PyNone THEN top
        ELSE IF nested # PyNone THEN nested
        ELSE find_m3u8_recursive(data)

\* what the validation API does for one call: the request fails, the status
\* is an error, the body is no JSON, or the body parses to data
ApiNetworkError == [kind |-> "network", data |-> JNull]
ApiHttpError == [kind |-> "status", data |-> JNull]
ApiBadJson == [kind |-> "badjson", data |-> JNull]
ApiJson(data) == [kind |-> "json", data |-> data]

\* get_playlist_from_api with the failures of the call left uncaught
get_playlist_from_apiUncaught(api) ==
    IF api.kind # "json" THEN PyError ELSE SearchResponse(api.data)

\* get_playlist_from_api: every exception of the try ends in `return None`
get_playlist_from_api(api) ==
    IF api.kind # "json" THEN PyNone
    ELSE IF SearchResponse(api.data) = PyError THEN PyNone
    ELSE SearchResponse(api.data)

\* extract_playlist_url: no media id, no call
extract_playlist_url(media_id, api) ==
    IF ~Truthy(media_id) THEN PyNone ELSE get_playlist_from_api(api)

\* _extract_metadata with the gate weakened to "both missing"
ExtractMetadataBothMissing(page) ==
    LET title == _extract_title(page)
        author == _extract_author(page)
    IN  IF ~Truthy(title) /\ ~Truthy(author) THEN NoMetadata
        ELSE [ok |-> TRUE, title |-> title, author |-> author,
              playlist_url |-> extract_playlist_url(page.playlist.media_id, page.playlist.api),
              thumbnail_url |-> page.thumbnail]

\* _extract_metadata up to the first await (the thumbnail download)
ExtractMetadata(page) ==
    LET title == _extract_title(page)
        author == _extract_author(page)
    IN  IF ~Truthy(title) \/ ~Truthy(author) THEN NoMetadata
        ELSE [ok |-> TRUE, title |-> title, author |-> author,
              playlist_url |-> extract_playlist_url(page.playlist.media_id, page.playlist.api),
              thumbnail_url |-> page.thumbnail]

\* scrape_audiobook: the fetch result, then _extract_metadata on the body;
\* an exception of safe_request or of the extraction leaves the call
ScrapeAudiobook(fetched, page) ==
    IF fetched.kind \notin {"text", "None"} THEN [kind |-> "raised", meta |-> NoMetadata]
    ELSE IF fetched.kind = "None" \/ fetched.body = "" THEN [kind |-> "returned", meta |-> NoMetadata]
    ELSE IF ExtractMetadata(page).playlist_url = PyError THEN [kind |-> "raised", meta |-> NoMetadata]
    ELSE [kind |-> "returned", meta |-> ExtractMetadata(page)]

-----------------------------------------------------------------------------
(* Pages *)

TextChars == {"a", " "}

ShortTexts == UNION {[1..n -> TextChars] : n \in 0..MaxText}

OHdioSuffix == suffixes_to_remove[3]
ParPrefix == prefixes_to_remove[1]

H1Sel == TitleSelectors[1]
OgTitleSel == TitleSelectors[6]
AuthorSel == AuthorSelectors[1]

AllSelectors == {TitleSelectors[k] : k \in 1..Len(TitleSelectors)}
                \cup {AuthorSelectors[k] : k \in 1..Len(AuthorSelectors)}

PlaylistUrl == <<"x", ".", "m", "3", "u", "8">>

MediaId == <<"1", "2", "3", "4", "5", "6", "7">>

\* what the resolver meets for a page: the media id extract_media_id finds
\* in the markup (None when there is none) and the answer of the
\* validation API for it
ResolverInput(media_id, api) == [media_id |-> media_id, api |-> api]

\* a page without media id
NoMediaId == ResolverInput(PyNone, ApiNetworkError)

\* a page with a media id for which the API answers {"url": PlaylistUrl}
Resolvable == ResolverInput(MediaId, ApiJson(JDict(<<KV("url", JStr(PlaylistUrl))>>)))
ThumbUrl == <<"t", ".", "j", "p", "g">>

\* a page with an h1, an og:title meta, an .author element, the author the
\* text patterns find, what the resolver meets and the thumbnail url
MakePage(h1, og, au, pa, pl, th) ==
    [els |-> [sel \in AllSelectors |->
                 IF sel = H1Sel THEN h1
                 ELSE IF sel = OgTitleSel THEN og
                 ELSE IF sel = AuthorSel THEN au
                 ELSE NoElement],
     patternAuthor |-> pa, playlist |-> pl, thumbnail |-> th]

H1Elements == {NoElement} \cup {Element(t) : t \in ShortTexts}
              \cup {Element(t \o OHdioSuffix) : t \in ShortTexts}

OgElements == {NoElement, Element(PyNone), Element(<<" ", " ", " ">>), Element(<<"a", "a", "a">>)}

AuthorElements == {NoElement} \cup {Element(t) : t \in ShortTexts}
                  \cup {Element(ParPrefix), Element(ParPrefix \o <<"a">>)}

PatternAuthors == {PyNone, <<"A", "a">>}

Pages == {MakePage(h1, og, au, pa, pl, PyNone) :
              h1 \in H1Elements, og \in OgElements, au \in AuthorElements,
              pa \in PatternAuthors, pl \in {NoMediaId, Resolvable}}

FetchResults == {Text("html"), Text(""), None,
                 Raised("NetworkError"), Raised("RateLimitError"), Raised("ValueError")}

-----------------------------------------------------------------------------
(* One call of scrape_audiobook *)

ScrapeInit ==
    /\ xpc = "call"
    /\ xfetched \in FetchResults
    /\ xpage \in Pages
    /\ xfetched # Text("html") => xpage = MakePage(NoElement, NoElement, NoElement, PyNone, NoMediaId, PyNone)
    /\ xresult = NoMetadata

FetchIdle ==
    /\ fmode = "async"
    /\ max_retries = 0
    /\ delay = 0
    /\ attempt = 0
    /\ fpc = "idle"
    /\ fresult = <<>>
    /\ trace = <<>>

\* safe_request raised: the exception leaves scrape_audiobook
ScrapeRaises ==
    /\ xpc = "call"
    /\ xfetched.kind \notin {"text", "None"}
    /\ xpc' = ScrapeAudiobook(xfetched, xpage).kind
    /\ UNCHANGED <<xfetched, xpage, xresult>>
    /\ UNCHANGED nonScrapeVars

\* `if not page_content: return None`
ScrapeNoContent ==
    /\ xpc = "call"
    /\ xfetched.kind \in {"text", "None"}
    /\ xfetched.kind = "None" \/ xfetched.body = ""
    /\ xpc' = "returned"
    /\ xresult' = ScrapeAudiobook(xfetched, xpage).meta
    /\ UNCHANGED <<xfetched, xpage>>
    /\ UNCHANGED nonScrapeVars

\* `metadata = await self._extract_metadata(page_content, book_url)`
ScrapeExtract ==
    /\ xpc = "call"
    /\ xfetched.kind = "text" /\ xfetched.body # ""
    /\ xpc' = ScrapeAudiobook(xfetched, xpage).kind
    /\ xresult' = ScrapeAudiobook(xfetched, xpage).meta
    /\ UNCHANGED <<xfetched, xpage>>
    /\ UNCHANGED nonScrapeVars

ScrapeNext ==
    \/ ScrapeRaises
    \/ ScrapeNoContent
    \/ ScrapeExtract

ExtractInit == ScrapeInit /\ FetchIdle /\ OrchIdle /\ DiscIdle /\ HostIdle /\ DlIdle /\ CfgIdle /\ IdIdle

SpecExtract == ExtractInit /\ [][ScrapeNext]_vars

\* C1: a record returned by scrape_audiobook has a title and an author that
\* are strings of at least one character, and a page from which the title or
\* the author cannot be extracted yields None, never a partial record.
C1_CompletenessGate ==
    xpc = "returned" =>
        /\ xresult.ok =>
            /\ xresult.title # PyNone /\ Len(xresult.title) >= 1
            /\ xresult.author # PyNone /\ Len(xresult.author) >= 1
        /\ (~Truthy(_extract_title(xpage)) \/ ~Truthy(_extract_author(xpage))) => xresult = NoMetadata

\* a page with a title but no author was scraped: the result is None
C1_Witness ==
    /\ xpc = "returned"
    /\ xfetched = Text("html")
    /\ Truthy(_extract_title(xpage))
    /\ ~Truthy(_extract_author(xpage))
    /\ xresult = NoMetadata

-----------------------------------------------------------------------------
(* utils/file_utils.py *)

max_length == 255

\* the compatibility decomposition of one character
NFKD(c) == IF c = "é" THEN <<"e", "´">> ELSE <<c>>

RECURSIVE Decompose(_)
\* the decompositions of the characters of s, one after the other (computed
\* by halves)
Decompose(s) ==
    IF s = <<>> THEN <<>>
    ELSE IF Len(s) = 1 THEN NFKD(s[1])
    ELSE Decompose(SubSeq(s, 1, Len(s) \div 2)) \o Decompose(SubSeq(s, Len(s) \div 2 + 1, Len(s)))

\* canonical combining class: "´" stands for a combining mark above (230),
\* "¸" for a combining mark below (220), every other character is a starter
ccc(c) == IF c = "´" THEN 230 ELSE IF c = "¸" THEN 220 ELSE 0

Misordered(s) == {k \in 1..(Len(s) - 1) : ccc(s[k + 1]) > 0 /\ ccc(s[k]) > ccc(s[k + 1])}

RECURSIVE CanonicalOrder(_)
\* the canonical ordering of the marks that follow one another
CanonicalOrder(s) ==
    IF Misordered(s) = {} THEN s
    ELSE LET k == CHOOSE k \in Misordered(s) : \A j \in Misordered(s) : k <= j
         IN  CanonicalOrder([s EXCEPT ![k] = s[k + 1], ![k + 1] = s[k]])

\* unicodedata.normalize('NFKD', filename)
Normalize(s) == CanonicalOrder(Decompose(s))

invalid_chars == {"<", ">", ":", "\"", "|", "?", "*", "\\", "/"}

control_chars == {"\t", "\n", "\r"}

\* re.sub(invalid_chars, '_', filename)
ReplaceInvalid(s) == [k \in 1..Len(s) |-> IF s[k] \in invalid_chars THEN "_" ELSE s[k]]

IsPrintable(c) == c \notin control_chars

\* re.sub(r'[\x00-\x1f\x7f-\x9f]', '', filename)
RemoveControl(s) == SelectSeq(s, IsPrintable)

RECURSIVE CollapseFrom(_, _)
\* s with every run of spaces and underscores replaced by one underscore,
\* inRun telling that the character before s is part of a run (computed by
\* halves)
CollapseFrom(s, inRun) ==
    IF s = <<>> THEN <<>>
    ELSE IF Len(s) = 1
    THEN IF s[1] \in {" ", "_"} THEN (IF inRun THEN <<>> ELSE <<"_">>) ELSE s
    ELSE LET h == Len(s) \div 2
         IN  CollapseFrom(SubSeq(s, 1, h), inRun)
                 \o CollapseFrom(SubSeq(s, h + 1, Len(s)), s[h] \in {" ", "_"})

\* re.sub(r'[ _]+', '_', filename)
CollapseRuns(s) == CollapseFrom(s, FALSE)

RECURSIVE StripSpaceDot(_)
\* filename.strip(' .')
StripSpaceDot(s) ==
    IF s # <<>> /\ s[1] \in {" ", "."} THEN StripSpaceDot(Tail(s))
    ELSE IF s # <<>> /\ s[Len(s)] \in {" ", "."} THEN StripSpaceDot(SubSeq(s, 1, Len(s) - 1))
    ELSE s

DotIdx(s) == {k \in 1..Len(s) : s[k] = "."}

LastDot(s) == CHOOSE k \in DotIdx(s) : \A j \in DotIdx(s) : j <= k

\* s[:n]
Prefix(s, n) == IF n >= 0 THEN SubSeq(s, 1, IF n < Len(s) THEN n ELSE Len(s))
                ELSE SubSeq(s, 1, IF Len(s) + n > 0 THEN Len(s) + n ELSE 0)

\* the truncation of sanitize_filename, preserving a short extension
Truncate(s, maxLen) ==
    IF Len(s) <= maxLen THEN s
    ELSE IF DotIdx(s) # {} /\ Len(s) - LastDot(s) <= 10
         THEN Prefix(SubSeq(s, 1, LastDot(s) - 1), maxLen - (Len(s) - LastDot(s)) - 1)
              \o SubSeq(s, LastDot(s), Len(s))
         ELSE Prefix(s, maxLen)

sanitize_filename(filename) ==
    LET cleaned == StripSpaceDot(CollapseRuns(RemoveControl(ReplaceInvalid(Normalize(filename)))))
    IN  Truncate(IF cleaned = <<>> THEN <<"u", "n", "t", "i", "t", "l", "e", "d">> ELSE cleaned, max_length)

format_audiobook_filename(title, author, extension) ==
    LET t == IF Strip(title) = <<>> THEN <<"U", "n", "k", "n", "o", "w", "n", " ", "T", "i", "t", "l", "e">> ELSE Strip(title)
        a == IF Strip(author) = <<>> THEN <<"U", "n", "k", "n", "o", "w", "n", " ", "A", "u", "t", "h", "o", "r">> ELSE Strip(author)
    IN  sanitize_filename(a \o <<" ", "-", " ">> \o t \o <<".">> \o extension)

\* YtDlpDownloader._generate_filename
_generate_filename(title, author) == format_audiobook_filename(title, author, <<"m", "p", "3">>)

\* Path.stem and Path.suffix of a file name
HasSuffix(name) == DotIdx(name) # {} /\ LastDot(name) > 1 /\ LastDot(name) < Len(name)
PathStem(name) == IF HasSuffix(name) THEN SubSeq(name, 1, LastDot(name) - 1) ELSE name
PathSuffix(name) == IF HasSuffix(name) THEN SubSeq(name, LastDot(name), Len(name)) ELSE <<>>

RECURSIVE NumberedPath(_, _, _, _)
\* the while loop of get_safe_path
NumberedPath(existing, stem, suffix, counter) ==
    LET new_name == stem \o <<"_">> \o PyStr(counter) \o suffix
    IN  IF new_name \in existing THEN NumberedPath(existing, stem, suffix, counter + 1)
        ELSE new_name

\* the first numbered name taken without looking at the directory
get_safe_pathFirstNumber(existing, filename) ==
    IF filename \in existing
    THEN PathStem(filename) \o <<"_">> \o PyStr(1) \o PathSuffix(filename)
    ELSE filename

\* get_safe_path(directory, filename), existing being the files of the directory
get_safe_path(existing, filename) ==
    IF filename \in existing
    THEN NumberedPath(existing, PathStem(filename), PathSuffix(filename), 1)
    ELSE filename

-----------------------------------------------------------------------------
(* main.py: OHdioDownloader._process_audiobooks and the per-item pipeline   *)

Configs == [max_concurrent_downloads : 1..MaxConcurrent, delay_between_requests : {0, 1},
            skip_existing : BOOLEAN, embed_metadata : BOOLEAN]

TitleA == <<"a", "a", "a">>
TitleB == <<"a", " ", "a">>
AuthorA == <<"a", "a">>

PageA == MakePage(Element(TitleA), NoElement, Element(AuthorA), PyNone, Resolvable, PyNone)
PageB == MakePage(Element(TitleB), NoElement, Element(AuthorA), PyNone, Resolvable, ThumbUrl)
PageNoAuthor == MakePage(Element(TitleA), NoElement, NoElement, PyNone, Resolvable, PyNone)
PageNoPlaylist == MakePage(Element(TitleA), NoElement, Element(AuthorA), PyNone, NoMediaId, PyNone)

\* the pages the title urls of a batch serve
OrchPages == {PageA, PageB, PageNoAuthor, PageNoPlaylist}

FileA == _generate_filename(TitleA, AuthorA)

\* the output directory before the run: empty, or holding the file of PageA
InitialFiles == {{}, {FileA}}

OrchInit ==
    /\ config \in Configs
    /\ \E n \in 1..MaxItems :
        /\ pc = [i \in Items |-> IF i <= n THEN "queued" ELSE "absent"]
        /\ stats = [discovered |-> n, processed |-> 0, downloaded |-> 0, failed |-> 0, skipped |-> 0]
    /\ sem = config.max_concurrent_downloads
    /\ meta = [i \in Items |-> NoMetadata]
    /\ out_path = [i \in Items |-> <<>>]
    /\ outcome = [i \in Items |-> "-"]
    /\ files \in InitialFiles
    /\ hist = [i \in Items |-> NoHist]
    /\ run = 1

\* the counters written as 1 in place of being incremented
BumpLostUpdate(st, keys) ==
    [k \in DOMAIN st |-> IF \E j \in 1..Len(keys) : keys[j] = k THEN 1 ELSE st[k]]

RECURSIVE Bump(_, _)
\* self.stats[key] += 1 for every key of keys
Bump(st, keys) == IF keys = <<>> THEN st
                  ELSE Bump([st EXCEPT ![Head(keys)] = @ + 1], Tail(keys))

\* the sleep moved out of `async with semaphore`: the slot is given back
\* before the delay
LeaveReleasesBeforeDelay(i, oc, keys, h) ==
    /\ outcome' = [outcome EXCEPT ![i] = oc]
    /\ stats' = Bump(stats, keys)
    /\ hist' = [hist EXCEPT ![i] = Bump(h, keys)]
    /\ meta' = [meta EXCEPT ![i] = NoMetadata]
    /\ out_path' = [out_path EXCEPT ![i] = <<>>]
    /\ sem' = sem + 1
    /\ IF config.delay_between_requests > 0
       THEN pc' = [pc EXCEPT ![i] = "sleeping"]
       ELSE pc' = [pc EXCEPT ![i] = "done"]
    /\ UNCHANGED <<config, run, nonOrchVars>>

\* _process_single_audiobook returns after bumping the counters keys; then
\* _process_with_semaphore sleeps delay_between_requests inside `async with
\* semaphore`, or leaves it at once when the delay is 0
Leave(i, oc, keys, h) ==
    /\ outcome' = [outcome EXCEPT ![i] = oc]
    /\ stats' = Bump(stats, keys)
    /\ hist' = [hist EXCEPT ![i] = Bump(h, keys)]
    /\ meta' = [meta EXCEPT ![i] = NoMetadata]
    /\ out_path' = [out_path EXCEPT ![i] = <<>>]
    /\ IF config.delay_between_requests > 0
       THEN pc' = [pc EXCEPT ![i] = "sleeping"] /\ sem' = sem
       ELSE pc' = [pc EXCEPT ![i] = "done"] /\ sem' = sem + 1
    /\ UNCHANGED <<config, run, nonOrchVars>>

\* `if not metadata:` ... return False
MetadataFailed(i, h) == Leave(i, "Failed", <<"failed">>, h)

\* the no-playlist branch returning without counting the failure
PlaylistMissingUncounted(i, h) == Leave(i, "Failed", <<>>, h)

\* `if not metadata.playlist_url:` ... return False
PlaylistMissing(i, h) == Leave(i, "Failed", <<"failed">>, h)

\* the skip counted as a download too
SkipExistingAlsoDownloaded(i, h) == Leave(i, "SkippedExisting", <<"skipped", "downloaded">>, h)

\* "File already exists, skipping"
SkipExisting(i, h) == Leave(i, "SkippedExisting", <<"skipped">>, h)

\* the failed-download branch without its `return False`: falls through to
\* the tagging and the success count
DownloadFailedFallsThrough(i, h) ==
    Leave(i, "Failed", <<"failed", "downloaded">>, [h EXCEPT !.tag = @ + 1])

\* `if not downloaded_file:` ... return False
DownloadFailed(i, h) == Leave(i, "Failed", <<"failed">>, h)

\* self.stats['downloaded'] += 1; return True
Completed(i, h) == Leave(i, "Downloaded", <<"downloaded">>, h)

\* the handler leaving without releasing the slot
ExceptionKeepsSlot(i, h) ==
    /\ outcome' = [outcome EXCEPT ![i] = "Failed"]
    /\ stats' = Bump(stats, <<"failed">>)
    /\ hist' = [hist EXCEPT ![i] = Bump([h EXCEPT !.exc = TRUE], <<"failed">>)]
    /\ meta' = [meta EXCEPT ![i] = NoMetadata]
    /\ out_path' = [out_path EXCEPT ![i] = <<>>]
    /\ pc' = [pc EXCEPT ![i] = "done"]
    /\ UNCHANGED <<sem, config, run, nonOrchVars>>

\* `except Exception as e:` at the item boundary
ExceptionCaught(i, h) == Leave(i, "Failed", <<"failed">>, [h EXCEPT !.exc = TRUE])

\* the acquire of `async with semaphore` not looking at the value
CanAcquireAlways == TRUE

\* asyncio.Semaphore: acquire goes through while the value is positive
CanAcquire == sem > 0

\* the existence check ignored
ShouldSkipNever(filename) == FALSE

\* `self.config.skip_existing and output_path.exists()`
ShouldSkip(filename) == config.skip_existing /\ filename \in files

\* a failure of embed_metadata treated like a failure of the download
TagFailureFails(i, h, tagok) ==
    IF config.embed_metadata
    THEN IF tagok THEN Completed(i, [h EXCEPT !.tag = @ + 1, !.tagok = tagok])
         ELSE Leave(i, "Failed", <<"failed">>, [h EXCEPT !.tag = @ + 1, !.tagok = tagok])
    ELSE Completed(i, h)

\* Step 4 of the pipeline, then the success count
TagAndComplete(i, h, tagok) ==
    IF config.embed_metadata
    THEN Completed(i, [h EXCEPT !.tag = @ + 1, !.tagok = tagok])
    ELSE Completed(i, h)

\* download_audiobook up to the await of the yt-dlp run; creating the
\* output directory may raise, which the item boundary catches
StartDownload(i, m, h, filename) ==
    IF ~Truthy(m.playlist_url) THEN DownloadFailed(i, h) /\ UNCHANGED files
    ELSE \/ ExceptionCaught(i, h) /\ UNCHANGED files
         \/ LET output_path == get_safe_path(files, filename)
            IN  IF config.skip_existing /\ output_path \in files
                THEN TagAndComplete(i, [h EXCEPT !.dlok = TRUE], TRUE) /\ UNCHANGED files
                ELSE /\ pc' = [pc EXCEPT ![i] = "downloading"]
                     /\ out_path' = [out_path EXCEPT ![i] = output_path]
                     /\ meta' = [meta EXCEPT ![i] = m]
                     /\ hist' = [hist EXCEPT ![i] = [h EXCEPT !.dl = @ + 1]]
                     /\ UNCHANGED <<config, run, sem, stats, outcome, files, nonOrchVars>>

\* the file names of the records the pages of a batch give
GeneratedNames == [m \in {ExtractMetadata(page) : page \in OrchPages} |->
                      _generate_filename(m.title, m.author)]

\* _process_single_audiobook from the return of scrape_audiobook with a
\* record to its next await
AfterScrape(i, m, h) ==
    IF ~Truthy(m.playlist_url)
    THEN PlaylistMissing(i, [h EXCEPT !.scraped = "noplaylist"]) /\ UNCHANGED files
    ELSE LET filename == GeneratedNames[m]
             h1 == [h EXCEPT !.scraped = "ok", !.existed = config.skip_existing /\ filename \in files]
         IN  IF ShouldSkip(filename)
             THEN SkipExisting(i, h1) /\ UNCHANGED files
             ELSE StartDownload(i, m, h1, filename)

\* the event loop runs tasks only while no task is inside the blocking
\* `self.session.get` of get_playlist_from_api (requests, no await)
LoopFree == \A k \in Items : pc[k] # "resolving"

\* the task of item i enters `async with semaphore` and runs to the await
\* of the page fetch; waiters are served in the order the tasks were created
StartItem(i) ==
    /\ LoopFree
    /\ pc[i] = "queued"
    /\ \A j \in Items : j < i => pc[j] # "queued"
    /\ CanAcquire
    /\ sem' = sem - 1
    /\ stats' = Bump(stats, <<"processed">>)
    /\ hist' = [hist EXCEPT ![i] = Bump(@, <<"processed">>)]
    /\ pc' = [pc EXCEPT ![i] = "fetching"]
    /\ UNCHANGED <<config, run, meta, out_path, outcome, files, nonOrchVars>>

\* what scrape_audiobook gives for each page once its fetch returned the body
ScrapedPages == [page \in OrchPages |-> ScrapeAudiobook(Text("html"), page)]

\* what scrape_audiobook gives when the fetch raised or returned no body,
\* or when the parsing of the page raises
ScrapeFailures ==
    {ScrapeAudiobook(fetched, PageA) : fetched \in FetchResults \ {Text("html")}}
        \cup {[kind |-> "raised", meta |-> NoMetadata]}

\* scrape_audiobook of item i returned r, or raised
ScrapeReturned(i, r) ==
    IF r.kind = "raised"
    THEN ExceptionCaught(i, [hist[i] EXCEPT !.scraped = "raised"]) /\ UNCHANGED files
    ELSE IF ~r.meta.ok
    THEN MetadataFailed(i, [hist[i] EXCEPT !.scraped = "none"]) /\ UNCHANGED files
    ELSE AfterScrape(i, r.meta, hist[i])

\* _extract_metadata from the end of the validation-API call: on to the
\* await of the thumbnail download, or scrape_audiobook returns the record
AfterResolve(i, m) ==
    IF Truthy(m.thumbnail_url)
    THEN /\ pc' = [pc EXCEPT ![i] = "thumb"]
         /\ meta' = [meta EXCEPT ![i] = m]
         /\ UNCHANGED <<config, run, sem, stats, out_path, outcome, files, hist, nonOrchVars>>
    ELSE AfterScrape(i, m, hist[i])

\* the page fetch of item i ends; scrape_audiobook returns at once, or the
\* parsing of the page raises, or _extract_metadata runs into the call of
\* the validation API (made when title, author and a media id were found)
FetchDone(i) ==
    /\ LoopFree
    /\ pc[i] = "fetching"
    /\ \/ \E r \in ScrapeFailures : ScrapeReturned(i, r)
       \/ \E page \in OrchPages :
              IF ~ScrapedPages[page].meta.ok
              THEN ScrapeReturned(i, ScrapedPages[page])
              ELSE IF Truthy(page.playlist.media_id)
              THEN /\ pc' = [pc EXCEPT ![i] = "resolving"]
                   /\ meta' = [meta EXCEPT ![i] = ScrapedPages[page].meta]
                   /\ UNCHANGED <<config, run, sem, stats, out_path, outcome, files, hist, nonOrchVars>>
              ELSE AfterResolve(i, ScrapedPages[page].meta)

\* the validation API answers item i (or its call fails): the thread of the
\* event loop is free again and _extract_metadata goes on
ApiDone(i) ==
    /\ pc[i] = "resolving"
    /\ AfterResolve(i, meta[i])

\* the thumbnail download ends (its failure is swallowed) and
\* scrape_audiobook returns the record
ThumbDone(i) ==
    /\ LoopFree
    /\ pc[i] = "thumb"
    /\ AfterScrape(i, meta[i], hist[i])

\* the yt-dlp run of item i ends
DownloadDone(i) ==
    /\ LoopFree
    /\ pc[i] = "downloading"
    /\ \E success \in BOOLEAN, created \in BOOLEAN, tagok \in BOOLEAN :
        LET written == IF created THEN files \cup {out_path[i]} ELSE files
        IN  /\ files' = written
            /\ IF success /\ out_path[i] \in written
               THEN TagAndComplete(i, [hist[i] EXCEPT !.dlok = TRUE], tagok)
               ELSE DownloadFailed(i, hist[i])

\* the inter-item sleep ends and the task leaves `async with semaphore`
DelayDone(i) ==
    /\ LoopFree
    /\ pc[i] = "sleeping"
    /\ pc' = [pc EXCEPT ![i] = "done"]
    /\ sem' = sem + 1
    /\ UNCHANGED <<config, run, stats, meta, out_path, outcome, files, hist, nonOrchVars>>

ItemStep(i) ==
    \/ StartItem(i)
    \/ FetchDone(i)
    \/ ApiDone(i)
    \/ ThumbDone(i)
    \/ DownloadDone(i)
    \/ DelayDone(i)

Next ==
    \/ \E i \in Items : StartItem(i)
    \/ \E i \in Items : FetchDone(i)
    \/ \E i \in Items : ApiDone(i)
    \/ \E i \in Items : ThumbDone(i)
    \/ \E i \in Items : DownloadDone(i)
    \/ \E i \in Items : DelayDone(i)

Init == OrchInit /\ FetchIdle /\ ScrapeIdle /\ DiscIdle /\ HostIdle /\ DlIdle /\ CfgIdle /\ IdIdle

Spec == Init /\ [][Next]_vars

\* every external call returns and the event loop runs a ready task
FairSpec == Spec /\ WF_vars(Next)

-----------------------------------------------------------------------------
(* Properties of the batch run *)

Terminal == {"Downloaded", "SkippedExisting", "Failed"}

SlotHolders == {i \in Items : pc[i] \in {"fetching", "resolving", "thumb", "downloading", "sleeping"}}

InPipeline == {i \in Items : pc[i] \in {"fetching", "resolving", "thumb", "downloading"}}

\* C2: an item whose metadata extraction failed (scrape_audiobook raised or
\* returned None) or whose record has no playlist url never reaches the
\* external downloader; it is Failed, and `failed` was incremented exactly
\* once for it and no other outcome counter was.
C2_NoDownloadWithoutPlaylist ==
    \A i \in Items :
        hist[i].scraped \in {"raised", "none", "noplaylist"} =>
            /\ hist[i].dl = 0
            /\ pc[i] # "downloading"
            /\ outcome[i] = "Failed"
            /\ hist[i].failed = 1
            /\ hist[i].downloaded = 0 /\ hist[i].skipped = 0
            /\ stats.failed >= 1

\* an item whose page has title and author but no playlist url has failed
C2_Witness ==
    \E i \in Items :
        /\ hist[i].scraped = "noplaylist"
        /\ outcome[i] = "Failed"
        /\ pc[i] = "done"
        /\ stats.failed = 1

\* C3: an item with a resolved playlist url whose target file existed when
\* the orchestrator looked, skip_existing being true, is never handed to the
\* downloader nor to the tagger; `skipped` was incremented once for it and
\* `downloaded` not at all.
C3_SkipExisting ==
    \A i \in Items :
        (hist[i].scraped = "ok" /\ hist[i].existed /\ config.skip_existing) =>
            /\ hist[i].dl = 0
            /\ hist[i].tag = 0
            /\ pc[i] # "downloading"
            /\ outcome[i] = "SkippedExisting"
            /\ hist[i].skipped = 1
            /\ hist[i].downloaded = 0
            /\ hist[i].failed = 0

C3_Witness ==
    \E i \in Items :
        /\ hist[i].scraped = "ok" /\ hist[i].existed /\ config.skip_existing
        /\ outcome[i] = "SkippedExisting"
        /\ stats.skipped = 1
        /\ stats.downloaded = 0
        /\ pc[i] = "done"

\* C4: the items that hold a slot (inside the pipeline or in the delay that
\* follows it) are never more than max_concurrent_downloads, and the
\* semaphore value is what the holders leave.
C4_BoundedConcurrency ==
    /\ Cardinality(SlotHolders) <= config.max_concurrent_downloads
    /\ Cardinality(InPipeline) <= config.max_concurrent_downloads
    /\ sem = config.max_concurrent_downloads - Cardinality(SlotHolders)

\* every slot is taken and an item waits for one
C4_Witness ==
    /\ Cardinality(InPipeline) = config.max_concurrent_downloads
    /\ \E i \in Items : pc[i] = "queued"
    /\ sem = 0

AllSettled ==
    /\ \A j \in Items : pc[j] \in {"absent", "done"}
    /\ \A j \in Items : pc[j] = "done" => outcome[j] \in Terminal
    /\ sem = config.max_concurrent_downloads

Rank(p) == CASE p = "absent" -> 0
             [] p = "queued" -> 1
             [] p = "fetching" -> 2
             [] p = "resolving" -> 3
             [] p = "thumb" -> 4
             [] p = "downloading" -> 5
             [] p = "sleeping" -> 6
             [] p = "done" -> 7

\* C6: the tagger has only been invoked for items whose download succeeded
\* (so never for a skipped or failed item), an item never moves backwards,
\* and Failed is absorbing: a Failed item stays Failed, calls neither the
\* downloader nor the tagger and bumps no counter any more.
C6_ForwardOnly ==
    /\ [](\A i \in Items :
            /\ hist[i].tag > 0 => (hist[i].dlok /\ outcome[i] = "Downloaded")
            /\ outcome[i] = "Failed" => (hist[i].tag = 0 /\ hist[i].downloaded = 0 /\ hist[i].skipped = 0))
    /\ [][\A i \in Items :
            /\ Rank(pc'[i]) >= Rank(pc[i])
            /\ outcome[i] = "Failed" =>
                /\ outcome'[i] = "Failed"
                /\ hist'[i] = hist[i]
                /\ pc'[i] \in {"sleeping", "done"}]_vars

\* an item whose download failed has left its delay; a later item was tagged
C6_Witness ==
    \E i, j \in Items :
        /\ outcome[i] = "Failed" /\ hist[i].dl = 1 /\ pc[i] = "done"
        /\ config.delay_between_requests > 0
        /\ hist[j].tag = 1 /\ outcome[j] = "Downloaded"

RECURSIVE SumOver(_, _)
SumOver(S, key) == IF S = {} THEN 0
                   ELSE LET i == CHOOSE x \in S : TRUE
                        IN  hist[i][key] + SumOver(S \ {i}, key)

\* C16: an item whose download succeeded and whose tagging then failed is
\* not Failed: its pipeline reports success, `downloaded` was incremented
\* once for it and `failed` not at all.
C16_TagFailureNotFatal ==
    \A i \in Items :
        (hist[i].dlok /\ hist[i].tag = 1 /\ ~hist[i].tagok) =>
            /\ outcome[i] = "Downloaded"
            /\ hist[i].downloaded = 1
            /\ hist[i].failed = 0

\* the file of an item was written, its tagging failed, and it counts as
\* downloaded
C16_Witness ==
    \E i \in Items :
        /\ hist[i].dl = 1 /\ hist[i].dlok /\ hist[i].tag = 1 /\ ~hist[i].tagok
        /\ outcome[i] = "Downloaded"
        /\ stats.downloaded = 1 /\ stats.failed = 0
        /\ pc[i] = "done"

\* C17: no increment of a counter is lost under any interleaving of the
\* item pipelines: every counter is the sum of the increments the items
\* made, and once a batch of N items started from zeroed counters is over,
\* `processed` is N.
C17_AtomicIncrements ==
    /\ \A key \in {"processed", "downloaded", "skipped", "failed"} :
           stats[key] = SumOver(Items, key)
    /\ AllSettled => stats.processed = Cardinality({i \in Items : pc[i] = "done"})

\* a batch of two items that ran at the same time is over
C17_Witness ==
    /\ AllSettled
    /\ config.max_concurrent_downloads >= 2
    /\ Cardinality({i \in Items : pc[i] = "done"}) >= 2
    /\ stats.processed >= 2

\* C19 as stated: an item that waits out its delay holds no slot, the
\* semaphore counts only the items still inside their pipeline.
C19_DelayAfterRelease ==
    (\E i \in Items : pc[i] = "sleeping") =>
        sem = config.max_concurrent_downloads - Cardinality(InPipeline)

\* C19, amended: the delay is waited out inside the slot. An item that waits
\* out its delay still holds its slot, which is given back in the step that
\* ends the delay; while every slot is held by an item in its pipeline or
\* in its delay no queued item can start.
C19_DelayHoldsSlot ==
    /\ [](\A i \in Items : pc[i] = "sleeping" =>
            /\ sem = config.max_concurrent_downloads - Cardinality(SlotHolders)
            /\ (Cardinality(SlotHolders) = config.max_concurrent_downloads =>
                   \A j \in Items : ~ENABLED StartItem(j)))
    /\ [][\A i \in Items : (pc[i] = "sleeping" /\ pc'[i] # "sleeping") =>
             (pc'[i] = "done" /\ sem' = sem + 1)]_vars

\* the only slot is held by an item in its delay while another item waits
C19_Witness ==
    \E i, j \in Items :
        /\ pc[i] = "sleeping" /\ outcome[i] \in Terminal
        /\ pc[j] = "queued"
        /\ sem = 0

\* C20: while the page fetch, the validation-API call or the thumbnail
\* download of one item is outstanding, every other item that is inside its
\* pipeline or its delay can take its next step.
C20_FetchesNonBlocking ==
    \A i, j \in Items :
        (i # j /\ pc[i] \in {"fetching", "resolving", "thumb"} /\ j \in SlotHolders) =>
            ENABLED ItemStep(j)

-----------------------------------------------------------------------------
(* Several invocations on one OHdioDownloader instance                      *)

\* invocations on one instance
MaxRuns == 2

\* the batch of the current invocation is over and download_all_audiobooks
\* is called again on the same instance: discovery sets `discovered`,
\* _process_audiobooks makes a new semaphore and new tasks; the other
\* counters and the output directory are what the earlier run left
NextRun ==
    /\ run < MaxRuns
    /\ \A i \in Items : pc[i] \in {"absent", "done"}
    /\ run' = run + 1
    /\ pc' = [i \in Items |-> IF pc[i] = "done" THEN "queued" ELSE "absent"]
    /\ stats' = [stats EXCEPT !.discovered = Cardinality({i \in Items : pc[i] = "done"})]
    /\ sem' = config.max_concurrent_downloads
    /\ meta' = [i \in Items |-> NoMetadata]
    /\ out_path' = [i \in Items |-> <<>>]
    /\ outcome' = [i \in Items |-> "-"]
    /\ hist' = [i \in Items |-> NoHist]
    /\ UNCHANGED <<config, files, nonOrchVars>>

RunsNext ==
    \/ \E i \in Items : StartItem(i)
    \/ \E i \in Items : FetchDone(i)
    \/ \E i \in Items : ApiDone(i)
    \/ \E i \in Items : ThumbDone(i)
    \/ \E i \in Items : DownloadDone(i)
    \/ \E i \in Items : DelayDone(i)
    \/ NextRun

\* the category page lists one audiobook
RunsInit == Init /\ stats.discovered = 1

SpecRuns == RunsInit /\ [][RunsNext]_vars

RunStarting == /\ \E i \in Items : pc[i] = "queued"
               /\ \A i \in Items : pc[i] \in {"queued", "absent"}

\* C18: when a run starts on an instance, the counters of the outcomes are
\* zero, and when it is over they count the items of that run only.
C18_StatsResetPerRun ==
    /\ RunStarting => (stats.processed = 0 /\ stats.downloaded = 0
                       /\ stats.skipped = 0 /\ stats.failed = 0)
    /\ AllSettled => stats.processed = Cardinality({i \in Items : pc[i] = "done"})

\* C27: every item that entered the pipeline incremented `processed` once,
\* and once it left it incremented exactly one of `downloaded`, `skipped`,
\* `failed`, once; so processed - (downloaded + skipped + failed) is the
\* number of items in flight, zero when none is.
C27_ProcessedAccounting ==
    /\ stats.processed - (stats.downloaded + stats.skipped + stats.failed) = Cardinality(InPipeline)
    /\ \A i \in Items :
          /\ pc[i] \in {"absent", "queued"} => hist[i].processed = 0
          /\ pc[i] \notin {"absent", "queued"} => hist[i].processed = 1
          /\ i \in InPipeline => hist[i].downloaded + hist[i].skipped + hist[i].failed = 0
          /\ pc[i] \in {"sleeping", "done"} =>
                /\ hist[i].downloaded + hist[i].skipped + hist[i].failed = 1
                /\ hist[i].downloaded = 1 <=> outcome[i] = "Downloaded"
                /\ hist[i].skipped = 1 <=> outcome[i] = "SkippedExisting"
                /\ hist[i].failed = 1 <=> outcome[i] = "Failed"

\* one item was skipped and is over while another is still in flight
C27_Witness ==
    \E i, j \in Items :
        /\ pc[i] = "done" /\ outcome[i] = "SkippedExisting"
        /\ j \in InPipeline
        /\ stats.processed = 2
        /\ stats.skipped = 1 /\ stats.downloaded = 0 /\ stats.failed = 0

\* C28: two items in flight are never both handed to the external
\* downloader with the same output path.
C28_DistinctOutputPaths ==
    \A i, j \in Items :
        (i # j /\ pc[i] = "downloading" /\ pc[j] = "downloading") => out_path[i] # out_path[j]

-----------------------------------------------------------------------------
(* A batch run during which the host application asks for a stop *)

\* the host sets the flag of DOWNLOAD_STATE; nothing in app.py sets it but
\* the two start handlers (to False), and nothing in main.py reads it
RequestStop ==
    /\ ~stop_requested
    /\ stop_requested' = TRUE
    /\ UNCHANGED <<fetchVars, scrapeVars, orchVars, discVars, dlVars, cfgVars, idVars>>

StopNext ==
    \/ \E i \in Items : StartItem(i)
    \/ \E i \in Items : FetchDone(i)
    \/ \E i \in Items : ApiDone(i)
    \/ \E i \in Items : ThumbDone(i)
    \/ \E i \in Items : DownloadDone(i)
    \/ \E i \in Items : DelayDone(i)
    \/ RequestStop

SpecStop == Init /\ [][StopNext]_vars

\* C21: once a stop was requested, no item that has not started begins
\* processing, and no step takes an item in flight out of the pipeline
\* other than to its terminal outcome.
C21_StopBetweenItems ==
    [][stop_requested =>
          \A i \in Items :
              /\ pc[i] = "queued" => pc'[i] = "queued"
              /\ (i \in InPipeline /\ pc'[i] \notin {"fetching", "resolving", "thumb", "downloading"})
                     => outcome'[i] \in Terminal]_vars

-----------------------------------------------------------------------------
(* One call of scrape_audiobook on a page with title and author, over the   *)
(* answers of the validation API                                            *)

\* entries of a validationResults list
MaxResults == 2

Manifest2 == <<"y", ".", "m", "3", "u", "8">>
Manifest3 == <<"z", ".", "m", "3", "u", "8">>
OtherUrl == <<"x", ".", "m", "p", "3">>

TopUrlValues == {JStr(PlaylistUrl), JStr(OtherUrl), JNum, JNull}

ResultEntries == {JDict(<<KV("other", JNum)>>),
                  JDict(<<KV("url", JStr(Manifest2))>>),
                  JDict(<<KV("url", JStr(OtherUrl))>>),
                  JDict(<<KV("other", JStr(Manifest3))>>)}

ResultLists == UNION {[1..n -> ResultEntries] : n \in 0..MaxResults}

ElsewhereValues == {JStr(Manifest3),
                    JList(<<JStr(Manifest3)>>),
                    JDict(<<KV("stream", JStr(Manifest3))>>),
                    JList(<<JDict(<<KV("url", JStr(Manifest3))>>)>>),
                    JNum}

UrlParts == {<<>>} \cup {<<KV("url", v)>> : v \in TopUrlValues}
ResultsParts == {<<>>, <<KV("validationResults", JNull)>>}
                \cup {<<KV("validationResults", JList(l))>> : l \in ResultLists}
ElsewhereParts == {<<>>} \cup {<<KV("other", v)>> : v \in ElsewhereValues}

\* parsed bodies of the validation API
ApiData ==
    {JDict(u \o r \o e) : u \in UrlParts, r \in ResultsParts, e \in ElsewhereParts}
    \cup {JDict(e \o u \o r) : u \in UrlParts, r \in ResultsParts, e \in ElsewhereParts}
    \cup {JList(<<JStr(PlaylistUrl)>>), JList(<<JDict(<<KV("url", JStr(PlaylistUrl))>>)>>),
          JStr(PlaylistUrl), JNum}

ApiOutcomes == {ApiNetworkError, ApiHttpError, ApiBadJson} \cup {ApiJson(d) : d \in ApiData}

ResolverInputs == {NoMediaId, ResolverInput(<<>>, ApiNetworkError)}
                  \cup {ResolverInput(MediaId, a) : a \in ApiOutcomes}

ResolvePages == {MakePage(Element(TitleA), NoElement, Element(AuthorA), PyNone, ri, PyNone) :
                     ri \in ResolverInputs}

ResolveInit ==
    /\ xpc = "call"
    /\ xfetched \in FetchResults
    /\ xpage \in ResolvePages
    /\ xfetched # Text("html") => xpage = PageNoPlaylist
    /\ xresult = NoMetadata

ResolveStart == ResolveInit /\ FetchIdle /\ OrchIdle /\ DiscIdle /\ HostIdle /\ DlIdle /\ CfgIdle /\ IdIdle

SpecResolve == ResolveStart /\ [][ScrapeNext]_vars

-----------------------------------------------------------------------------
(* Properties of the resolver *)

IsManifest(value) == value.t = "str" /\ EndsWith(value.s, M3U8)

DictHas(obj, key) == obj.t = "dict" /\ \E j \in 1..Len(obj.items) : obj.items[j].k = key

\* the top-level url when it is a manifest url
TopLevelManifest(data) ==
    IF DictHas(data, "url") /\ IsManifest(Get(data, "url")) THEN Get(data, "url").s ELSE PyNone

\* the url of the first validationResults entry that has a manifest url
FirstResultManifest(data) ==
    IF DictHas(data, "validationResults") /\ Get(data, "validationResults").t = "list"
    THEN LET results == Get(data, "validationResults").items
             withUrl == {j \in 1..Len(results) :
                            DictHas(results[j].v, "url") /\ IsManifest(Get(results[j].v, "url"))}
         IN  IF withUrl = {} THEN PyNone
             ELSE Get(results[CHOOSE j \in withUrl : \A k \in withUrl : j <= k].v, "url").s
    ELSE PyNone

RECURSIVE DepthFirstManifest(_)
RECURSIVE DepthFirstItems(_, _)

DepthFirstItems(items, j) ==
    IF j > Len(items) THEN PyNone
    ELSE IF DepthFirstManifest(items[j].v) # PyNone THEN DepthFirstManifest(items[j].v)
    ELSE DepthFirstItems(items, j + 1)

\* the first manifest url a depth-first walk of the value meets
DepthFirstManifest(value) ==
    IF value.t = "str" THEN (IF IsManifest(value) THEN value.s ELSE PyNone)
    ELSE DepthFirstItems(value.items, 1)

ManifestByPriority(data) ==
    IF TopLevelManifest(data) # PyNone THEN TopLevelManifest(data)
    ELSE IF FirstResultManifest(data) # PyNone THEN FirstResultManifest(data)
    ELSE DepthFirstManifest(data)

ScrapeEnded == xpc \in {"returned", "raised"}

ApiAnswered == /\ ScrapeEnded
               /\ xfetched = Text("html")
               /\ Truthy(xpage.playlist.media_id)
               /\ xpage.playlist.api.kind = "json"

\* C14: for a parsed API response the resolver gives the top-level url when
\* it ends in .m3u8, else the url of the first validationResults entry that
\* has one ending in .m3u8, else the first string ending in .m3u8 of a
\* depth-first walk of the whole response, else None.
C14_ResolverPriority ==
    ApiAnswered =>
        /\ xpc = "returned"
        /\ xresult.playlist_url = ManifestByPriority(xpage.playlist.api.data)

ResolverFails ==
    \/ ~Truthy(xpage.playlist.media_id)
    \/ xpage.playlist.api.kind # "json"
    \/ DepthFirstManifest(xpage.playlist.api.data) = PyNone

\* C15: on a page with title and author, when the resolver fails (no media
\* id, the API call fails, answers an error status or no JSON, or the
\* response holds no manifest url), scrape_audiobook does not raise and
\* returns a record with title and author and no playlist url.
C15_ResolverFailureNotFatal ==
    (ScrapeEnded /\ xfetched = Text("html") /\ ResolverFails
        /\ Truthy(_extract_title(xpage)) /\ Truthy(_extract_author(xpage))) =>
        /\ xpc = "returned"
        /\ xresult.ok
        /\ xresult.title = _extract_title(xpage) /\ xresult.author = _extract_author(xpage)
        /\ xresult.playlist_url = PyNone

\* the API call failed on the network, and the record came back without url
C15_Witness ==
    /\ xpc = "returned"
    /\ xfetched = Text("html")
    /\ xpage.playlist = ResolverInput(MediaId, ApiNetworkError)
    /\ xresult.ok /\ xresult.title = TitleA /\ xresult.playlist_url = PyNone

-----------------------------------------------------------------------------
(* scraper/category_scraper.py: CategoryScraper, and the discovery step of  *)
(* OHdioDownloader.download_all_audiobooks                                  *)

\* entries one parsing method finds on a page
MaxFound == 1

BookUrls == {"u1", "u2"}
BookTitles == {"tA", "tB"}

\* AudiobookInfo: url is the identity key, title stands for the other fields
AudiobookInfo == [url : BookUrls, title : BookTitles]

parsing_methods == <<"_parse_index_grid_items", "_parse_book_items",
                     "_parse_livre_audio_sections", "_parse_generic_links">>

BookLists == UNION {[1..n -> AudiobookInfo] : n \in 0..MaxFound}

\* what a parsing method does on a page: it raises, or returns a list
MethodRaises == [raised |-> TRUE, books |-> <<>>]
MethodOutcomes == {MethodRaises} \cup {[raised |-> FALSE, books |-> b] : b \in BookLists}

RECURSIVE RunMethodsAbortOnError(_, _, _)
\* the loop over the parsing methods with the try around the whole loop
RunMethodsAbortOnError(strats, k, audiobooks) ==
    IF k > Len(parsing_methods) THEN audiobooks
    ELSE IF strats[k].raised THEN audiobooks
    ELSE RunMethodsAbortOnError(strats, k + 1, audiobooks \o strats[k].books)

RECURSIVE RunMethods(_, _, _)
\* for method in parsing_methods: try: audiobooks.extend(method(...)) except: log
RunMethods(strats, k, audiobooks) ==
    IF k > Len(parsing_methods) THEN audiobooks
    ELSE IF strats[k].raised THEN RunMethods(strats, k + 1, audiobooks)
    ELSE RunMethods(strats, k + 1, audiobooks \o strats[k].books)

\* the duplicate removal with seen_urls never filled
RemoveDuplicatesNoSeen(audiobooks, k, seen_urls, unique_audiobooks) == audiobooks

RECURSIVE RemoveDuplicates(_, _, _, _)
\* for book in audiobooks: if book.url not in seen_urls: add, append
RemoveDuplicates(audiobooks, k, seen_urls, unique_audiobooks) ==
    IF k > Len(audiobooks) THEN unique_audiobooks
    ELSE IF audiobooks[k].url \notin seen_urls
         THEN RemoveDuplicates(audiobooks, k + 1, seen_urls \cup {audiobooks[k].url},
                               Append(unique_audiobooks, audiobooks[k]))
         ELSE RemoveDuplicates(audiobooks, k + 1, seen_urls, unique_audiobooks)

_parse_category_page(strats) ==
    RemoveDuplicates(RunMethods(strats, 1, <<>>), 1, {}, <<>>)

NoMethodRun == [k \in 1..Len(parsing_methods) |-> [raised |-> FALSE, books |-> <<>>]]

DiscInit ==
    /\ dpc = "call"
    /\ dfetched \in FetchResults
    /\ dstrats \in [1..Len(parsing_methods) -> MethodOutcomes]
    /\ dfetched # Text("html") => dstrats = NoMethodRun
    /\ catalog = <<>>

\* safe_request raised: the exception leaves scrape_category and
\* _discover_audiobooks, and download_all_audiobooks logs it and re-raises
DiscoverRaises ==
    /\ dpc = "call"
    /\ dfetched.kind \notin {"text", "None"}
    /\ dpc' = "raised"
    /\ UNCHANGED <<dfetched, dstrats, catalog>>
    /\ UNCHANGED nonDiscVars

\* `if not page_content: return []`, then `if not audiobooks: ... return`
DiscoverNoContent ==
    /\ dpc = "call"
    /\ dfetched.kind \in {"text", "None"}
    /\ dfetched.kind = "None" \/ dfetched.body = ""
    /\ catalog' = <<>>
    /\ dpc' = "error_report"
    /\ UNCHANGED <<dfetched, dstrats>>
    /\ UNCHANGED nonDiscVars

\* the page is parsed; an empty catalog ends the run with the error report,
\* a non-empty one is handed to _process_audiobooks
DiscoverParsed ==
    /\ dpc = "call"
    /\ dfetched.kind = "text" /\ dfetched.body # ""
    /\ catalog' = _parse_category_page(dstrats)
    /\ dpc' = IF catalog' = <<>> THEN "error_report" ELSE "processing"
    /\ UNCHANGED <<dfetched, dstrats>>
    /\ UNCHANGED nonDiscVars

DiscoverNext ==
    \/ DiscoverRaises
    \/ DiscoverNoContent
    \/ DiscoverParsed

DiscoverInit == DiscInit /\ FetchIdle /\ ScrapeIdle /\ OrchIdle /\ HostIdle /\ DlIdle /\ CfgIdle /\ IdIdle

SpecDiscover == DiscoverInit /\ [][DiscoverNext]_vars

-----------------------------------------------------------------------------
(* Properties of the discovery *)

PageParsed == dpc \in {"error_report", "processing"} /\ dfetched = Text("html")

\* the places (method, position) where the methods found an entry
Found == {p \in (1..Len(parsing_methods)) \X (1..MaxFound + 1) : p[2] <= Len(dstrats[p[1]].books)}

FoundAt(p) == dstrats[p[1]].books[p[2]]

Earlier(p, q) == p[1] < q[1] \/ (p[1] = q[1] /\ p[2] < q[2])

FirstFound(u) == CHOOSE p \in Found : /\ FoundAt(p).url = u
                                      /\ \A q \in Found : FoundAt(q).url = u => ~Earlier(q, p)

\* C11: the catalog holds every url the methods found exactly once, each
\* kept entry is the first occurrence of its url in method order
\* (grid-item, structured-item, text-anchor, generic-link), and the kept
\* entries stand in first-seen order.
C11_DedupFirstWins ==
    PageParsed =>
        /\ \A a, b \in 1..Len(catalog) : a # b => catalog[a].url # catalog[b].url
        /\ {catalog[a].url : a \in 1..Len(catalog)} = {FoundAt(p).url : p \in Found}
        /\ \A a \in 1..Len(catalog) : catalog[a] = FoundAt(FirstFound(catalog[a].url))
        /\ \A a, b \in 1..Len(catalog) :
               a < b => Earlier(FirstFound(catalog[a].url), FirstFound(catalog[b].url))

\* two methods found the same url with different fields, a third found
\* another url in between
C11_Witness ==
    /\ PageParsed
    /\ Len(catalog) = 2
    /\ \E p, q \in Found : /\ Earlier(p, q)
                           /\ FoundAt(p).url = FoundAt(q).url
                           /\ FoundAt(p).title # FoundAt(q).title
                           /\ \E r \in Found : Earlier(p, r) /\ Earlier(r, q)
                                               /\ FoundAt(r).url # FoundAt(p).url

\* C12: when one of the parsing methods raises, every url found by a method
\* that did not raise, before or after the failing one, is in the catalog.
C12_MethodFailureIsolated ==
    (PageParsed /\ \E k \in 1..Len(parsing_methods) : dstrats[k].raised) =>
        \A p \in Found : \E a \in 1..Len(catalog) : catalog[a].url = FoundAt(p).url

\* the second method raised; the first and the third each found a url
C12_Witness ==
    /\ PageParsed
    /\ dstrats[2].raised
    /\ Len(dstrats[1].books) = 1 /\ Len(dstrats[3].books) = 1
    /\ dstrats[1].books[1].url # dstrats[3].books[1].url
    /\ Len(catalog) = 2

CategoryFetchFailures == {None, Raised("NetworkError"), Raised("RateLimitError")}

\* C13: whatever way the fetch of the category page fails (not found,
\* rate limit exhausted, 5xx exhausted, transport error or timeout
\* exhausted), discovery gives an empty list and the run ends with the
\* error report, without an exception and without processing an item.
C13_FetchFailureEmptyCatalog ==
    (dpc \notin {"idle", "call"} /\ dfetched \in CategoryFetchFailures) =>
        /\ dpc = "error_report"
        /\ catalog = <<>>
        /\ stats.processed = 0

-----------------------------------------------------------------------------
(* downloader/ytdlp_downloader.py: one call of download_audiobook *)

\* files numbered by get_safe_path that the directory may hold already
MaxExisting == 2

NameChars == {"a", " ", ":", ".", "_", "é", "\t", "¸"}

Names == UNION {[1..k -> NameChars] : k \in 0..MaxText}

TitleX == <<"T", "i", "t", "l", "e", " ", "X">>
JaneDoe == <<"J", "a", "n", "e", " ", "D", "o", "e">>

\* a title longer than max_length
LongTitle == [k \in 1..(max_length + 5) |-> "a"]

DlTitles == Names \cup {TitleX, LongTitle}

DlAuthors == {<<>>, <<"a">>, <<".">>, <<" ">>, JaneDoe}

\* <stem>_<k><suffix>
Numbered(name, k) == PathStem(name) \o <<"_">> \o PyStr(k) \o PathSuffix(name)

\* the names the directory may hold when the call is made
Candidates(name) == {name} \cup {Numbered(name, k) : k \in 1..MaxExisting}

\* the titles whose directory is not empty when the call is made
DirTitles == {<<"a">>, TitleX, <<":", " ">>}

DlInit ==
    /\ ypc = "call"
    /\ yargs \in [playlist_url : {PyNone, PlaylistUrl}, title : DlTitles,
                   author : DlAuthors, skip_existing : BOOLEAN]
    /\ ydir \in IF yargs.title \in DirTitles
                 THEN SUBSET Candidates(_generate_filename(yargs.title, yargs.author))
                 ELSE {{}}
    /\ yfilename = <<>>
    /\ ypath = <<>>
    /\ yresult = PyNone

\* `if not playlist_url:` ... return None
DlNoUrl ==
    /\ ypc = "call"
    /\ ~Truthy(yargs.playlist_url)
    /\ ypc' = "returned"
    /\ yresult' = PyNone
    /\ UNCHANGED <<yargs, ydir, yfilename, ypath, nonDlVars>>

\* ensure_directory_exists raises (the directory cannot be made)
DlDirError ==
    /\ ypc = "call"
    /\ Truthy(yargs.playlist_url)
    /\ ypc' = "raised"
    /\ UNCHANGED <<yargs, ydir, yfilename, ypath, yresult, nonDlVars>>

\* download_audiobook from the filename to the await of the yt-dlp run
DlPrepare ==
    /\ ypc = "call"
    /\ Truthy(yargs.playlist_url)
    /\ LET filename == _generate_filename(yargs.title, yargs.author)
           output_path == get_safe_path(ydir, filename)
       IN  /\ yfilename' = filename
           /\ ypath' = output_path
           /\ IF yargs.skip_existing /\ output_path \in ydir
              THEN ypc' = "returned" /\ yresult' = output_path
              ELSE ypc' = "running" /\ yresult' = yresult
    /\ UNCHANGED <<yargs, ydir, nonDlVars>>

\* the yt-dlp run ends: `if success and output_path.exists()`
DlFinish ==
    /\ ypc = "running"
    /\ \E success \in BOOLEAN, created \in BOOLEAN :
          LET written == IF created THEN ydir \cup {ypath} ELSE ydir
          IN  /\ ydir' = written
              /\ yresult' = IF success /\ ypath \in written THEN ypath ELSE PyNone
    /\ ypc' = "returned"
    /\ UNCHANGED <<yargs, yfilename, ypath, nonDlVars>>

DlNext ==
    \/ DlNoUrl
    \/ DlDirError
    \/ DlPrepare
    \/ DlFinish

DownloadInit == DlInit /\ FetchIdle /\ ScrapeIdle /\ OrchIdle /\ DiscIdle /\ HostIdle /\ CfgIdle /\ IdIdle

SpecDownload == DownloadInit /\ [][DlNext]_vars

-----------------------------------------------------------------------------
(* Properties of the filename and of the output path *)

\* download_audiobook has generated the filename
DlNamed == yfilename # <<>>

\* C22: the filename generated from any title and author is a fixed point of
\* sanitize_filename and holds none of the characters < > : " | ? * \ /.
C22_SanitizeFixedPoint ==
    DlNamed =>
        /\ sanitize_filename(yfilename) = yfilename
        /\ \A k \in 1..Len(yfilename) : yfilename[k] \notin invalid_chars

Letters == {"a", "e", "i", "l", "n", "o", "t", "D", "J", "T", "X"}

\* letters and single spaces, none at either end
PlainName(s) ==
    /\ s # <<>>
    /\ \A k \in 1..Len(s) : s[k] \in Letters \cup {" "}
    /\ s[1] # " " /\ s[Len(s)] # " "
    /\ \A k \in 1..(Len(s) - 1) : ~(s[k] = " " /\ s[k + 1] = " ")

\* C23: for a title and an author made of letters and single spaces, short
\* enough for max_length, the filename is "<author> - <title>.mp3", spaces
\* and separator kept ("Jane Doe - Title X.mp3" for "Title X", "Jane Doe").
C23_PlainNameKept ==
    (DlNamed /\ PlainName(yargs.title) /\ PlainName(yargs.author)
        /\ Len(yargs.title) + Len(yargs.author) + 7 <= max_length) =>
        yfilename = yargs.author \o <<" ", "-", " ">> \o yargs.title \o <<".", "m", "p", "3">>

\* the output path was chosen and the directory is as it was at the call
DlPathChosen == ypc = "running"

\* C24: the path chosen is the requested one when no file is there, and
\* otherwise <stem>_<k><ext> for the smallest k >= 1 that is free; it never
\* names a file of the directory.
C24_SafePathIsFree ==
    DlPathChosen =>
        /\ ypath \notin ydir
        /\ yfilename \notin ydir => ypath = yfilename
        /\ yfilename \in ydir =>
              \E k \in 1..(Cardinality(ydir) + 1) :
                  /\ ypath = Numbered(yfilename, k)
                  /\ \A j \in 1..(k - 1) : Numbered(yfilename, j) \in ydir

\* the requested name and its first numbered name are taken
C24_Witness ==
    /\ DlPathChosen
    /\ yfilename \in ydir
    /\ Numbered(yfilename, 1) \in ydir
    /\ ypath = Numbered(yfilename, 2)

\* C29: a call with skip_existing on while a file exists at the generated
\* filename does not run the download tool and returns the path of that
\* file.
C29_DownloaderSkipsExisting ==
    [][(ypc = "call" /\ ypc' # "raised" /\ Truthy(yargs.playlist_url) /\ yargs.skip_existing
          /\ _generate_filename(yargs.title, yargs.author) \in ydir)
        => (ypc' = "returned" /\ yresult' = _generate_filename(yargs.title, yargs.author))]_vars

-----------------------------------------------------------------------------
(* utils/config.py: the construction of a Config *)

\* largest value given for a numeric setting
MaxSetting == 2

\* a setting is not given (the default applies) or given as a number
SettingValues == {<<>>} \cup {<<v>> : v \in -1..MaxSetting}

\* the value of a field after the dataclass __init__
Field(given, default) == IF given = <<>> THEN default ELSE given[1]

\* the validation without the test of retry_attempts
ValidateNoRetryCheck(c) ==
    IF c.max_concurrent_downloads < 1 THEN "ValueError"
    ELSE IF c.delay_between_requests < 0 THEN "ValueError"
    ELSE ""

\* the three tests of __post_init__: the exception raised, "" for none
Validate(c) ==
    IF c.max_concurrent_downloads < 1 THEN "ValueError"
    ELSE IF c.retry_attempts < 0 THEN "ValueError"
    ELSE IF c.delay_between_requests < 0 THEN "ValueError"
    ELSE ""

\* the Config the dataclass __init__ fills in before __post_init__
Filled(in) ==
    [output_directory |-> "configured",
     max_concurrent_downloads |-> Field(in.max_concurrent_downloads, DefaultConfig.max_concurrent_downloads),
     retry_attempts |-> Field(in.retry_attempts, DefaultConfig.retry_attempts),
     delay_between_requests |-> Field(in.delay_between_requests, DefaultConfig.delay_between_requests)]

\* the values of the call: the keyword arguments, or those of from_file
\* (none when the file is missing: `return cls()`)
Given(in) ==
    IF in.how = "from_file" /\ in.file = "missing"
    THEN [in EXCEPT !.max_concurrent_downloads = <<>>, !.retry_attempts = <<>>,
                    !.delay_between_requests = <<>>]
    ELSE in

CfgInit ==
    /\ cpc = "call"
    /\ cinput \in [how : {"direct", "from_file"}, file : {"data", "missing", "badjson"},
                    writable : BOOLEAN,
                    max_concurrent_downloads : SettingValues, retry_attempts : SettingValues,
                    delay_between_requests : SettingValues]
    /\ cinput.how = "direct" => cinput.file = "data"
    /\ cresult = DefaultConfig
    /\ cerror = ""

\* from_file: json.load raises JSONDecodeError, logged and raised again
ConfigBadJson ==
    /\ cpc = "call"
    /\ cinput.how = "from_file" /\ cinput.file = "badjson"
    /\ cpc' = "raised"
    /\ cerror' = "JSONDecodeError"
    /\ UNCHANGED <<cinput, cresult, nonCfgVars>>

\* __post_init__ raises ValueError
ConfigInvalid ==
    /\ cpc = "call"
    /\ ~(cinput.how = "from_file" /\ cinput.file = "badjson")
    /\ Validate(Filled(Given(cinput))) # ""
    /\ cpc' = "raised"
    /\ cerror' = Validate(Filled(Given(cinput)))
    /\ UNCHANGED <<cinput, cresult, nonCfgVars>>

\* __post_init__ passes the tests and makes the output directory, falling
\* back to "downloads" on PermissionError; the Config is returned
ConfigValid ==
    /\ cpc = "call"
    /\ ~(cinput.how = "from_file" /\ cinput.file = "badjson")
    /\ Validate(Filled(Given(cinput))) = ""
    /\ cpc' = "returned"
    /\ cresult' = [Filled(Given(cinput)) EXCEPT
                       !.output_directory = IF cinput.writable THEN @ ELSE "downloads"]
    /\ UNCHANGED <<cinput, cerror, nonCfgVars>>

ConfigNext ==
    \/ ConfigBadJson
    \/ ConfigInvalid
    \/ ConfigValid

ConfigInit == CfgInit /\ FetchIdle /\ ScrapeIdle /\ OrchIdle /\ DiscIdle /\ HostIdle /\ DlIdle /\ IdIdle

SpecConfig == ConfigInit /\ [][ConfigNext]_vars

\* a value of the call is out of range
OutOfRange(in) ==
    \/ in.max_concurrent_downloads # <<>> /\ in.max_concurrent_downloads[1] < 1
    \/ in.retry_attempts # <<>> /\ in.retry_attempts[1] < 0
    \/ in.delay_between_requests # <<>> /\ in.delay_between_requests[1] < 0

\* C25: a construction given max_concurrent_downloads < 1, retry_attempts
\* < 0 or delay_between_requests < 0 ends by raising the validation failure,
\* and no Config returned holds such a value.
C25_ConfigValidated ==
    /\ (cpc \in {"returned", "raised"} /\ cinput.file = "data" /\ OutOfRange(cinput)) =>
           (cpc = "raised" /\ cerror = "ValueError")
    /\ cpc = "returned" =>
           /\ cresult.max_concurrent_downloads >= 1
           /\ cresult.retry_attempts >= 0
           /\ cresult.delay_between_requests >= 0

\* from_file read retry_attempts = -1, the other settings being in range
C25_Witness ==
    /\ cpc = "raised"
    /\ cerror = "ValueError"
    /\ cinput.how = "from_file" /\ cinput.file = "data"
    /\ cinput.retry_attempts = <<-1>>
    /\ cinput.max_concurrent_downloads = <<1>>
    /\ cinput.delay_between_requests = <<0>>

-----------------------------------------------------------------------------
(* scraper/playlist_extractor.py: one call of extract_playlist_url *)

\* data attributes the selectors of Method 2 meet, script tags of the page
MaxAttrs == 1
MaxScripts == 1

\* the identifiers of the page, one per place (numerals shorter than the 7
\* to 8 digits of the real ones)
PatternId(k) == <<"9">> \o PyStr(k)
AttrId == <<"8", "1">>
ScriptId(n) == <<"7">> \o PyStr(n)

Quotes == {"\"", "'"}

RECURSIVE StripQuotes(_)
\* matches[0].strip('"\'')
StripQuotes(s) ==
    IF s # <<>> /\ s[1] \in Quotes THEN StripQuotes(Tail(s))
    ELSE IF s # <<>> /\ s[Len(s)] \in Quotes THEN StripQuotes(SubSeq(s, 1, Len(s) - 1))
    ELSE s

\* str.isdigit
IsDigit(value) == value # <<>> /\ \A k \in 1..Len(value) : value[k] \in DigitChars

\* index of the first member of a non-empty set of indexes
First(S) == CHOOSE k \in S : \A j \in S : k <= j

\* the patterns of Method 1 that match: `if matches:`
Matching(markup) == {k \in 1..Len(markup.patterns) : markup.patterns[k] # <<>>}

\* the attribute values Method 2 returns on: `if value and value.isdigit()`
NumericAttrs(markup) ==
    {k \in 1..Len(markup.attrs) : Truthy(markup.attrs[k]) /\ IsDigit(markup.attrs[k])}

\* the scripts Method 3 returns on: `if script.string:` and `if numeric_ids:`
NumberedScripts(markup) ==
    {k \in 1..Len(markup.scripts) : Truthy(markup.scripts[k].string) /\ markup.scripts[k].numeric_ids # <<>>}

\* Method 1
MediaIdFromPatterns(markup) ==
    IF Matching(markup) # {} THEN StripQuotes(markup.patterns[First(Matching(markup))][1])
    ELSE PyNone

\* Method 2; an exception of the parser is logged and the search goes on
MediaIdFromAttrs(markup) ==
    IF markup.parses /\ NumericAttrs(markup) # {} THEN markup.attrs[First(NumericAttrs(markup))]
    ELSE PyNone

\* Method 3
MediaIdFromScripts(markup) ==
    IF markup.parses /\ NumberedScripts(markup) # {}
    THEN markup.scripts[First(NumberedScripts(markup))].numeric_ids[1]
    ELSE PyNone

\* the data attributes searched before the patterns
extract_media_idAttrsFirst(markup) ==
    IF MediaIdFromAttrs(markup) # PyNone THEN MediaIdFromAttrs(markup)
    ELSE IF Matching(markup) # {} THEN MediaIdFromPatterns(markup)
    ELSE MediaIdFromScripts(markup)

extract_media_id(markup) ==
    IF Matching(markup) # {} THEN MediaIdFromPatterns(markup)
    ELSE IF MediaIdFromAttrs(markup) # PyNone THEN MediaIdFromAttrs(markup)
    ELSE MediaIdFromScripts(markup)

\* what re.findall gives for pattern k: nothing, or a first match
PatternMatches(k) ==
    {<<>>, <<PatternId(k)>>} \cup
    (IF k = 1 THEN {<<<<"'">> \o PatternId(k)>>, <<<<"'">>>>} ELSE {})

AttrValues == {<<>>, <<"a", "b">>, AttrId}

ScriptTags == {[string |-> PyNone, numeric_ids |-> <<>>],
               [string |-> <<"j", "s">>, numeric_ids |-> <<>>],
               [string |-> <<"j", "s">>, numeric_ids |-> <<ScriptId(1)>>],
               [string |-> <<"j", "s">>, numeric_ids |-> <<ScriptId(2), ScriptId(1)>>]}

Markups ==
    {[patterns |-> <<p1, p2, p3, p4>>, parses |-> ok, attrs |-> a, scripts |-> sc] :
        p1 \in PatternMatches(1), p2 \in PatternMatches(2), p3 \in PatternMatches(3),
        p4 \in PatternMatches(4), ok \in BOOLEAN,
        a \in UNION {[1..n -> AttrValues] : n \in 0..MaxAttrs},
        sc \in UNION {[1..n -> ScriptTags] : n \in 0..MaxScripts}}

IdInit ==
    /\ rpc = "call"
    /\ rmarkup \in Markups
    /\ rapi \in {ApiNetworkError, ApiJson(JDict(<<KV("url", JStr(PlaylistUrl))>>))}
    /\ rcalls = <<>>
    /\ rresult = PyNone

\* `if not media_id: return None`
ResolveNoId ==
    /\ rpc = "call"
    /\ ~Truthy(extract_media_id(rmarkup))
    /\ rpc' = "returned"
    /\ rresult' = PyNone
    /\ UNCHANGED <<rmarkup, rapi, rcalls, nonIdVars>>

\* get_playlist_from_api sends its request for the media id
ResolveRequest ==
    /\ rpc = "call"
    /\ Truthy(extract_media_id(rmarkup))
    /\ rcalls' = Append(rcalls, extract_media_id(rmarkup))
    /\ rpc' = "requested"
    /\ UNCHANGED <<rmarkup, rapi, rresult, nonIdVars>>

\* the request ends; get_playlist_from_api and extract_playlist_url return
ResolveAnswer ==
    /\ rpc = "requested"
    /\ rresult' = get_playlist_from_api(rapi)
    /\ rpc' = "returned"
    /\ UNCHANGED <<rmarkup, rapi, rcalls, nonIdVars>>

IdNext ==
    \/ ResolveNoId
    \/ ResolveRequest
    \/ ResolveAnswer

IdentifyInit == IdInit /\ FetchIdle /\ ScrapeIdle /\ OrchIdle /\ DiscIdle /\ HostIdle /\ DlIdle /\ CfgIdle

SpecIdentify == IdentifyInit /\ [][IdNext]_vars

\* a key-name pattern matches
PatternFound == \E k \in 1..Len(rmarkup.patterns) : rmarkup.patterns[k] # <<>>

\* the parsed page has a data attribute whose value is a numeral
AttrFound == rmarkup.parses /\ \E k \in 1..Len(rmarkup.attrs) : IsDigit(rmarkup.attrs[k])

\* the parsed page has an inline script with a numeral
ScriptFound ==
    rmarkup.parses /\ \E k \in 1..Len(rmarkup.scripts) :
        rmarkup.scripts[k].string # PyNone /\ rmarkup.scripts[k].numeric_ids # <<>>

\* the identifier id comes from the earliest method that matches
FromEarliestMethod(id) ==
    IF PatternFound
    THEN \E k \in 1..Len(rmarkup.patterns) :
            /\ rmarkup.patterns[k] # <<>>
            /\ \A j \in 1..(k - 1) : rmarkup.patterns[j] = <<>>
            /\ id = StripQuotes(rmarkup.patterns[k][1])
    ELSE IF AttrFound
    THEN \E k \in 1..Len(rmarkup.attrs) :
            /\ IsDigit(rmarkup.attrs[k])
            /\ \A j \in 1..(k - 1) : ~IsDigit(rmarkup.attrs[j])
            /\ id = rmarkup.attrs[k]
    ELSE /\ ScriptFound
         /\ \E k \in 1..Len(rmarkup.scripts) :
            /\ rmarkup.scripts[k].string # PyNone /\ rmarkup.scripts[k].numeric_ids # <<>>
            /\ \A j \in 1..(k - 1) :
                   rmarkup.scripts[j].string = PyNone \/ rmarkup.scripts[j].numeric_ids = <<>>
            /\ id = rmarkup.scripts[k].numeric_ids[1]

\* C26: one resolve call requests the validation API at most once, with a
\* non-empty identifier that is the one of the earliest method that matches
\* (patterns, then numeric data attributes, then the first numeral of the
\* first inline script that has one); when no method matches the call ends
\* without a request and with no result.
C26_OneRequestEarliestId ==
    /\ Len(rcalls) <= 1
    /\ rcalls # <<>> => (rcalls[1] # <<>> /\ rcalls[1] # PyNone /\ FromEarliestMethod(rcalls[1]))
    /\ (rpc = "returned" /\ ~PatternFound /\ ~AttrFound /\ ~ScriptFound) =>
           (rcalls = <<>> /\ rresult = PyNone)

\* no pattern matched, a data attribute held the numeral: one request was
\* made with it and the playlist url came back
C26_Witness ==
    /\ rpc = "returned"
    /\ ~PatternFound
    /\ rcalls = <<AttrId>>
    /\ ScriptFound
    /\ rresult = PlaylistUrl

====
